---- MODULE Spec2Model ----
(***************************************************************************)
(* The position-threaded printer of Analysis/src/Transpiler.cpp:           *)
(* StringWriter, the delimiter injectors, Printer and the transpile entry  *)
(* points.  Text is a sequence of one-character strings.                   *)
(***************************************************************************)
EXTENDS Integers, Sequences, FiniteSets, TLC

VARIABLES writer, calls, emitted, input, pc, result

vars == <<writer, calls, emitted, input, pc, result>>

(***************************************************************************)
(* Bounds                                                                  *)
(***************************************************************************)
MaxLine == 1
MaxColumn == 3

\* the widest padding of one advance that the text of a run is followed for
MaxPad == 64

(***************************************************************************)
(* Characters                                                              *)
(***************************************************************************)
NUL == "<nul>"
NL == "<nl>"
SP == " "
SQ == "<sq>"
DQ == "<dq>"
BSL == "<bs>"
BT == "<bt>"

UpperCase ==
    {"A","B","C","D","E","F","G","H","I","J","K","L","M",
     "N","O","P","Q","R","S","T","U","V","W","X","Y","Z"}

LowerCase ==
    {"a","b","c","d","e","f","g","h","i","j","k","l","m",
     "n","o","p","q","r","s","t","u","v","w","x","y","z"}

Digits == {"0","1","2","3","4","5","6","7","8","9"}

isIdentifierStartChar(c) == c \in UpperCase \/ c \in LowerCase \/ c = "_"

isDigit(c) == c \in Digits

isIdentifierChar(c) == isIdentifierStartChar(c) \/ isDigit(c)

RECURSIVE Repeat(_, _)
Repeat(c, n) == IF n <= 0 THEN <<>> ELSE <<c>> \o Repeat(c, n - 1)

RECURSIVE Contains(_, _)
Contains(s, c) == IF s = <<>> THEN FALSE ELSE Head(s) = c \/ Contains(Tail(s), c)

Position(l, c) == [line |-> l, column |-> c]

(***************************************************************************)
(* escape (Luau/StringUtils): quotes and the backslash get a backslash;    *)
(* a newline becomes \n; with escapeForInterpString also ` { }.            *)
(***************************************************************************)
escapeChar(c, escapeForInterpString) ==
    IF c = SQ \/ c = DQ \/ c = BSL THEN <<BSL, c>>
    ELSE IF c = NL THEN <<BSL, "n">>
    ELSE IF escapeForInterpString /\ c \in {BT, "{", "}"} THEN <<BSL, c>>
    ELSE <<c>>

RECURSIVE escape(_, _)
escape(s, escapeForInterpString) ==
    IF s = <<>> THEN <<>>
    ELSE escapeChar(Head(s), escapeForInterpString) \o escape(Tail(s), escapeForInterpString)

(***************************************************************************)
(* StringWriter: ss, pos, lastChar                                         *)
(***************************************************************************)
NewWriter(p) == [ss |-> <<>>, pos |-> p, lastChar |-> NUL]

newline(w) ==
    [ss |-> Append(w.ss, NL), pos |-> Position(w.pos.line + 1, 0), lastChar |-> NL]

space(w) ==
    [ss |-> Append(w.ss, SP), pos |-> Position(w.pos.line, w.pos.column + 1), lastChar |-> SP]

\* a write that replaces the buffer
writeOver(w, s) ==
    IF s = <<>> THEN w
    ELSE [ss |-> s, pos |-> Position(w.pos.line, w.pos.column + Len(s)), lastChar |-> s[Len(s)]]

write(w, s) ==
    IF s = <<>> THEN w
    ELSE [ss |-> w.ss \o s,
          pos |-> Position(w.pos.line, w.pos.column + Len(s)),
          lastChar |-> s[Len(s)]]

writeChar(w, c) ==
    [ss |-> Append(w.ss, c), pos |-> Position(w.pos.line, w.pos.column + 1), lastChar |-> c]

RECURSIVE newlinesUntil(_, _)
newlinesUntil(w, line) ==
    IF w.pos.line < line THEN newlinesUntil(newline(w), line) ELSE w

\* advance that pads on the line of the cursor only
advanceOnLine(w, newPos) ==
    IF w.pos.column < newPos.column
    THEN write(w, Repeat(SP, newPos.column - w.pos.column))
    ELSE w

advance(w, newPos) ==
    LET w1 == newlinesUntil(w, newPos.line)
    IN  IF w1.pos.column < newPos.column
        THEN write(w1, Repeat(SP, newPos.column - w1.pos.column))
        ELSE w1

maybeSpace(w, newPos, reserve) ==
    IF w.pos.column + reserve < newPos.column THEN space(w) ELSE w

RECURSIVE CountChar(_, _)
CountChar(s, c) ==
    IF s = <<>> THEN 0 ELSE (IF Head(s) = c THEN 1 ELSE 0) + CountChar(Tail(s), c)

\* characters after the last newline of s (all of s when there is none)
RECURSIVE TailAfter(_, _)
TailAfter(s, c) ==
    IF s = <<>> THEN 0
    ELSE IF s[Len(s)] = c THEN 0
    ELSE 1 + TailAfter(SubSeq(s, 1, Len(s) - 1), c)

\* text counted as if it had no line feed
writeMultilineFlat(w, s) == write(w, s)

writeMultiline(w, s) ==
    IF s = <<>> THEN w
    ELSE LET numLines == CountChar(s, NL)
         IN  [ss |-> w.ss \o s,
              pos |-> Position(w.pos.line + numLines,
                               IF numLines > 0 THEN TailAfter(s, NL)
                               ELSE w.pos.column + Len(s)),
              lastChar |-> s[Len(s)]]

identifier(w, s) ==
    IF s = <<>> THEN w
    ELSE write(IF isIdentifierChar(w.lastChar) THEN space(w) ELSE w, s)

keyword(w, s) ==
    IF s = <<>> THEN w
    ELSE write(IF isIdentifierChar(w.lastChar) THEN space(w) ELSE w, s)

symbol(w, s) == write(w, s)

literal(w, s) ==
    IF s = <<>> THEN w
    ELSE write(IF isIdentifierChar(w.lastChar) /\ isDigit(s[1]) THEN space(w) ELSE w, s)

\* the quote never switches
stringQuoteSingleOnly(s) == SQ

stringQuote(s) == IF Contains(s, SQ) THEN DQ ELSE SQ

\* string keeping the single quote whatever s holds
stringSingleQuoted(w, s) ==
    writeChar(write(writeChar(w, SQ), escape(s, FALSE)), SQ)

string(w, s) ==
    LET quote == stringQuote(s)
    IN  writeChar(write(writeChar(w, quote), escape(s, FALSE)), quote)

QuotedSingle == "QuotedSingle"
QuotedDouble == "QuotedDouble"
QuotedRaw == "QuotedRaw"
QuotedInterp == "QuotedInterp"

sourceQuote(quoteStyle) ==
    CASE quoteStyle = QuotedDouble -> DQ
      [] quoteStyle = QuotedSingle -> SQ
      [] quoteStyle = QuotedInterp -> BT
      [] OTHER -> DQ

\* sourceString closing a long string with one = too many
sourceStringLongClose(w, s, quoteStyle, blockDepth) ==
    IF quoteStyle = QuotedRaw
    THEN LET blocks == Repeat("=", blockDepth)
             w1 == write(writeChar(w, "["), blocks)
             w2 == writeMultiline(writeChar(w1, "["), s)
             w3 == write(writeChar(w2, "]"), blocks \o <<"=">>)
         IN  writeChar(w3, "]")
    ELSE LET quote == sourceQuote(quoteStyle)
         IN  writeChar(writeMultiline(writeChar(w, quote), s), quote)

sourceString(w, s, quoteStyle, blockDepth) ==
    IF quoteStyle = QuotedRaw
    THEN LET blocks == Repeat("=", blockDepth)
             w1 == write(writeChar(w, "["), blocks)
             w2 == writeMultiline(writeChar(w1, "["), s)
             w3 == write(writeChar(w2, "]"), blocks)
         IN  writeChar(w3, "]")
    ELSE LET quote == sourceQuote(quoteStyle)
         IN  writeChar(writeMultiline(writeChar(w, quote), s), quote)

(***************************************************************************)
(* A call on the Writer interface, as the Printer or another client makes  *)
(* it.  calls is the sequence of calls still to be made; emitted records,  *)
(* for every call made, the range of ss its token occupies (empty for the  *)
(* calls that only move the cursor).                                       *)
(***************************************************************************)
Call(op, s, newPos, reserve, quoteStyle, blockDepth) ==
    [op |-> op, s |-> s, newPos |-> newPos, reserve |-> reserve,
     quoteStyle |-> quoteStyle, blockDepth |-> blockDepth]

NoPos == Position(0, 0)

cAdvance(p) == Call("advance", <<>>, p, 0, QuotedDouble, 0)
cNewline == Call("newline", <<>>, NoPos, 0, QuotedDouble, 0)
cSpace == Call("space", <<>>, NoPos, 0, QuotedDouble, 0)
cMaybeSpace(p, reserve) == Call("maybeSpace", <<>>, p, reserve, QuotedDouble, 0)
cWrite(s) == Call("write", s, NoPos, 0, QuotedDouble, 0)
cIdentifier(s) == Call("identifier", s, NoPos, 0, QuotedDouble, 0)
cKeyword(s) == Call("keyword", s, NoPos, 0, QuotedDouble, 0)
cSymbol(s) == Call("symbol", s, NoPos, 0, QuotedDouble, 0)
cLiteral(s) == Call("literal", s, NoPos, 0, QuotedDouble, 0)
cString(s) == Call("string", s, NoPos, 0, QuotedDouble, 0)
cSourceString(s, quoteStyle, blockDepth) ==
    Call("sourceString", s, NoPos, 0, quoteStyle, blockDepth)

\* not a call of the Writer: the printer reads the value of an empty
\* optional, which fails LUAU_ASSERT or throws std::bad_optional_access
cBadOptional == Call("badOptional", <<>>, NoPos, 0, QuotedDouble, 0)

\* not a call of the Writer either: the printer reads through -> the Location
\* of an optional that holds none, and advances to whatever it finds there
cAbsentLocation == Call("absentLocation", <<>>, NoPos, 0, QuotedDouble, 0)

\* number of characters of the token a call writes, apart from spacing
TokenLen(c) ==
    CASE c.op \in {"write", "identifier", "keyword", "symbol", "literal"} -> Len(c.s)
      [] c.op = "string" -> Len(escape(c.s, FALSE)) + 2
      [] c.op = "sourceString" ->
            IF c.quoteStyle = QuotedRaw THEN Len(c.s) + 4 + 2 * c.blockDepth
            ELSE Len(c.s) + 2
      [] OTHER -> 0

Pending(op) == calls # <<>> /\ Head(calls).op = op

Consume ==
    /\ calls' = Tail(calls)
    /\ emitted' = Append(emitted,
            [op |-> Head(calls).op,
             call |-> Head(calls),
             from |-> Len(writer'.ss) - TokenLen(Head(calls)) + 1,
             to |-> Len(writer'.ss)])
    /\ UNCHANGED <<input, pc, result>>

Positions == {Position(l, c) : l \in 0..MaxLine, c \in 0..MaxColumn}

\* advance(newPos) would pad the line by more than MaxPad columns
PadsBeyond(w, newPos) == newPos.column - w.pos.column > MaxPad

Advance ==
    /\ Pending("advance")
    /\ ~PadsBeyond(writer, Head(calls).newPos)
    /\ writer' = advance(writer, Head(calls).newPos)
    /\ Consume

Newline ==
    /\ Pending("newline")
    /\ writer' = newline(writer)
    /\ Consume

Space ==
    /\ Pending("space")
    /\ writer' = space(writer)
    /\ Consume

MaybeSpace ==
    /\ Pending("maybeSpace")
    /\ writer' = maybeSpace(writer, Head(calls).newPos, Head(calls).reserve)
    /\ Consume

Write ==
    /\ Pending("write")
    /\ writer' = write(writer, Head(calls).s)
    /\ Consume

Identifier ==
    /\ Pending("identifier")
    /\ writer' = identifier(writer, Head(calls).s)
    /\ Consume

Keyword ==
    /\ Pending("keyword")
    /\ writer' = keyword(writer, Head(calls).s)
    /\ Consume

Symbol ==
    /\ Pending("symbol")
    /\ writer' = symbol(writer, Head(calls).s)
    /\ Consume

Literal ==
    /\ Pending("literal")
    /\ writer' = literal(writer, Head(calls).s)
    /\ Consume

String ==
    /\ Pending("string")
    /\ writer' = string(writer, Head(calls).s)
    /\ Consume

SourceString ==
    /\ Pending("sourceString")
    /\ writer' = sourceString(writer, Head(calls).s, Head(calls).quoteStyle, Head(calls).blockDepth)
    /\ Consume

(***************************************************************************)
(* Trees.  A node is a record with a kind, an id (its identity, the key of *)
(* the CST map) and a location; an absent optional or null pointer is <<>>,*)
(* a present one <<v>>.                                                    *)
(***************************************************************************)
Location(b, e) == [begin |-> b, end |-> e]

\* Location{}
NoLocation == Location(Position(0, 0), Position(0, 0))

\* the largest column: UINT_MAX in the program, here the largest integer the
\* checker represents
UnsignedMax == 2147483647

\* unsigned subtraction on a column: below zero it wraps to the top
USub(c, n) == IF c >= n THEN c - n ELSE UnsignedMax - (n - c - 1)

\* the classes of CST records, in the order of their declarations
CstClasses ==
    <<"ExprConstantNumber", "ExprConstantString", "ExprCall", "ExprIndexExpr", "ExprFunction",
      "ExprTable", "ExprOp", "StatDo", "StatReturn", "StatLocal", "StatFor", "StatForIn",
      "StatAssign", "StatCompoundAssign", "StatLocalFunction", "StatTypeAlias",
      "StatTypeFunction">>

\* the Class named by LUAU_CST_RTTI(Class) in the declaration of class T
RttiClass(T) == IF T = "ExprConstantString" THEN "ExprConstantNumber" ELSE T

\* CstRtti<Class>::value: ++gCstRttiIndex, once for each Class that an
\* LUAU_CST_RTTI names; the order of these initialisations is taken to be that
\* of the declarations
CstRtti(Class) ==
    Cardinality({RttiClass(CstClasses[j]) :
                    j \in 1..(CHOOSE i \in 1..Len(CstClasses) : CstClasses[i] = Class)})

\* T::CstClassIndex()
CstClassIndex(T) == CstRtti(RttiClass(T))

\* the classIndex of a record: its constructor passes CstClassIndex() to CstNode
classIndex(r) == CstClassIndex(r.kind)

\* r.is<T>()
is(r, T) == classIndex(r) = CstClassIndex(T)

\* r.as<T>(): the record, or none for nullptr
as(r, T) == IF classIndex(r) = CstClassIndex(T) THEN <<r>> ELSE <<>>

NoCst == [kind |-> "none"]

\* cstNodeMap[a]
CstOf(P, a) == IF a.id \in DOMAIN P.cstNodeMap THEN P.cstNodeMap[a.id] ELSE NoCst

\* c->as<T>() on the record found for a node
HasCst(P, a) == CstOf(P, a) # NoCst

(***************************************************************************)
(* CommaSeparatorInserter: first, commaPosition (a pointer into an array:  *)
(* null, or the array and an index).                                       *)
(***************************************************************************)
CommaSeparatorInserter(commaPosition) ==
    [first |-> TRUE, commaPosition |-> commaPosition, index |-> 1]

\* an invocation that writes its comma wherever the cursor is
commaCallsUnplaced(ins) == IF ins.first THEN <<>> ELSE <<cSymbol(<<",">>)>>

\* the Writer calls of one invocation
commaCalls(ins) ==
    IF ins.first THEN <<>>
    ELSE (IF ins.commaPosition # <<>>
          THEN <<cAdvance(ins.commaPosition[1][ins.index])>>
          ELSE <<>>) \o <<cSymbol(<<",">>)>>

\* the inserter after one invocation
commaStep(ins) ==
    IF ins.first THEN [ins EXCEPT !.first = FALSE]
    ELSE IF ins.commaPosition # <<>> THEN [ins EXCEPT !.index = @ + 1]
    ELSE ins

RECURSIVE commaSteps(_, _)
commaSteps(ins, n) == IF n = 0 THEN ins ELSE commaSteps(commaStep(ins), n - 1)

\* toString(AstExprBinary::Op)
opToString(op) ==
    CASE op = "Add" -> <<"+">>
      [] op = "Sub" -> <<"-">>
      [] op = "Mul" -> <<"*">>
      [] op = "Div" -> <<"/">>
      [] op = "FloorDiv" -> <<"/", "/">>
      [] op = "Mod" -> <<"%">>
      [] op = "Pow" -> <<"^">>
      [] op = "Concat" -> <<".", ".">>
      [] op = "CompareNe" -> <<"~", "=">>
      [] op = "CompareEq" -> <<"=", "=">>
      [] op = "CompareLt" -> <<"<">>
      [] op = "CompareLe" -> <<"<", "=">>
      [] op = "CompareGt" -> <<">">>
      [] op = "CompareGe" -> <<">", "=">>
      [] op = "And" -> <<"a", "n", "d">>
      [] op = "Or" -> <<"o", "r">>

\* a reserve of as many columns as the operator has characters
binaryReserveLength(op) == Len(opToString(op))

binaryReserve(op) ==
    CASE op \in {"Add", "Sub", "Mul", "Div", "FloorDiv", "Mod", "Pow", "CompareLt", "CompareGt"} -> 2
      [] op \in {"Concat", "CompareNe", "CompareEq", "CompareLe", "CompareGe", "Or"} -> 3
      [] op = "And" -> 4

(***************************************************************************)
(* A double: its class, its sign bit, and for a finite one its magnitude   *)
(* q * 2^16 + r plus one half when half holds.  The magnitude is kept in   *)
(* two parts so that 2^31 and its neighbours can be told apart.            *)
(***************************************************************************)
Half16 == 65536

Double(class, neg, q, r, half) ==
    [class |-> class, neg |-> neg, q |-> q, r |-> r, half |-> half]

\* the double of a small natural number
Dbl(n) == Double("finite", FALSE, 0, n, FALSE)

isinf(d) == d.class = "inf"
isnan(d) == d.class = "nan"

\* d <= std::numeric_limits<int>::max(), that is 2^31 - 1
LeqIntMax(d) ==
    CASE d.class = "nan" -> FALSE
      [] d.class = "inf" -> d.neg
      [] OTHER -> d.neg \/ d.q < 32767 \/ (d.q = 32767 /\ (d.r < Half16 - 1 \/ ~d.half))

\* d >= std::numeric_limits<int>::min(), that is -2^31
GeqIntMin(d) ==
    CASE d.class = "nan" -> FALSE
      [] d.class = "inf" -> ~d.neg
      [] OTHER -> ~d.neg \/ d.q < 32768 \/ (d.q = 32768 /\ d.r = 0 /\ ~d.half)

\* int(d) for d in the range of int: the fraction is dropped
toInt(d) == [neg |-> d.neg /\ (d.q # 0 \/ d.r # 0), q |-> d.q, r |-> d.r]

\* double(int(d)) == d
IntRoundTrips(d) == ~d.half

\* d == 0.0 && signbit(d)
isNegativeZero(d) == d.class = "finite" /\ d.q = 0 /\ d.r = 0 /\ ~d.half /\ d.neg

\* the decimal digits of q * 2^16 + r
RECURSIVE decimal(_, _)
decimal(q, r) ==
    LET t == (q % 10) * Half16 + r
        digit == <<"0", "1", "2", "3", "4", "5", "6", "7", "8", "9">>[(t % 10) + 1]
    IN  IF q = 0 /\ r < 10 THEN <<digit>> ELSE Append(decimal(q \div 10, t \div 10), digit)

\* std::to_string(int)
to_string(i) == (IF i.neg THEN <<"-">> ELSE <<>>) \o decimal(i.q, i.r)

\* snprintf("%.17g") of a finite double
format17g(d) ==
    (IF d.neg THEN <<"-">> ELSE <<>>) \o decimal(d.q, d.r)
    \o (IF d.half THEN <<".", "5">> ELSE <<>>)

kwNil == <<"n", "i", "l">>
kwTrue == <<"t", "r", "u", "e">>
kwFalse == <<"f", "a", "l", "s", "e">>
kwFunction == <<"f", "u", "n", "c", "t", "i", "o", "n">>
kwNot == <<"n", "o", "t">>
kwEnd == <<"e", "n", "d">>
kwIf == <<"i", "f">>
kwRepeat == <<"r", "e", "p", "e", "a", "t">>
kwUntil == <<"u", "n", "t", "i", "l">>
kwThen == <<"t", "h", "e", "n">>
kwElse == <<"e", "l", "s", "e">>
kwElseif == <<"e", "l", "s", "e", "i", "f">>
kwDo == <<"d", "o">>
kwReturn == <<"r", "e", "t", "u", "r", "n">>
kwLocal == <<"l", "o", "c", "a", "l">>
kwExport == <<"e", "x", "p", "o", "r", "t">>
kwType == <<"t", "y", "p", "e">>
symDots == <<".", ".", ".">>

RECURSIVE Flatten(_)
Flatten(seqs) == IF seqs = <<>> THEN <<>> ELSE Head(seqs) \o Flatten(Tail(seqs))

\* a loop that invokes the inserter before each element: element i is
\* preceded by invocation number i + done of the inserter
WithCommas(ins, bodies) ==
    Flatten([i \in 1..Len(bodies) |-> commaCalls(commaSteps(ins, i - 1)) \o bodies[i]])

(***************************************************************************)
(* ArgNameInserter: names and colonPositions are pointers into arrays of   *)
(* optionals (null, or the array), each with its own index.                *)
(***************************************************************************)
ArgNameInserter(names, colonPositions) ==
    [names |-> names, colonPositions |-> colonPositions, nameIndex |-> 1, colonIndex |-> 1]

argNameCalls(ins) ==
    IF ins.names # <<>> /\ ins.names[1][ins.nameIndex] # <<>>
    THEN LET name == ins.names[1][ins.nameIndex][1]
         IN  <<cAdvance(name.location.begin), cIdentifier(name.value)>>
             \o (IF ins.colonPositions # <<>>
                 THEN (IF ins.colonPositions[1][ins.colonIndex] # <<>>
                       THEN <<cAdvance(ins.colonPositions[1][ins.colonIndex][1])>>
                       ELSE <<cBadOptional>>)
                 ELSE <<>>)
             \o <<cSymbol(<<":">>)>>
    ELSE <<>>

argNameStep(ins) ==
    IF ins.names = <<>> THEN ins
    ELSE IF ins.names[1][ins.nameIndex] # <<>> /\ ins.colonPositions # <<>>
    THEN [ins EXCEPT !.nameIndex = @ + 1, !.colonIndex = @ + 1]
    ELSE [ins EXCEPT !.nameIndex = @ + 1]

RECURSIVE argNameSteps(_, _)
argNameSteps(ins, n) == IF n = 0 THEN ins ELSE argNameSteps(argNameStep(ins), n - 1)

\* isIntegerish without the test of negative zero
isIntegerishSigned(d) ==
    IF LeqIntMax(d) /\ GeqIntMin(d) THEN IntRoundTrips(d) ELSE FALSE

isIntegerish(d) ==
    IF LeqIntMax(d) /\ GeqIntMin(d)
    THEN IntRoundTrips(d) /\ ~isNegativeZero(d)
    ELSE FALSE

writeEnd(loc) ==
    LET endPos == IF loc.end.column >= 3
                  THEN Position(loc.end.line, loc.end.column - 3)
                  ELSE loc.end
    IN  <<cAdvance(endPos), cKeyword(kwEnd)>>

(***************************************************************************)
(* Printer: writeTypes, cstNodeMap.  Each visit gives the Writer calls it  *)
(* makes, in order.                                                        *)
(***************************************************************************)
Printer(writeTypes, cstNodeMap) == [writeTypes |-> writeTypes, cstNodeMap |-> cstNodeMap]

\* no fragment is followed by a hole
hasHoleNever(a, index) == FALSE

\* fragment number index, counted from 0, is followed by an expression
hasHole(a, index) == index < Len(a.expressions)

\* an opening parenthesis whatever the record says
callOpenParensAlways(c) == <<cSymbol(<<"(">>)>>

\* the opening parenthesis of a call whose CST record, if any, is c
callOpenParens(c) ==
    IF c # NoCst
    THEN (IF c.openParens # <<>>
          THEN <<cAdvance(c.openParens[1]), cSymbol(<<"(">>)>>
          ELSE <<>>)
    ELSE <<cSymbol(<<"(">>)>>

\* its closing parenthesis
callCloseParens(c) ==
    IF c # NoCst
    THEN (IF c.closeParens # <<>>
          THEN <<cAdvance(c.closeParens[1]), cSymbol(<<")">>)>>
          ELSE <<>>)
    ELSE <<cSymbol(<<")">>)>>

\* advance(cstItem->separatorLocation->begin), for every item of a table
\* that has a record
separatorAdvance(cstItem) ==
    IF cstItem.separatorLocation # <<>>
    THEN <<cAdvance(cstItem.separatorLocation[1].begin)>>
    ELSE <<cAbsentLocation>>

\* the separator written after a table item
separatorSymbol(cstItem) ==
    CASE cstItem.separator = <<"Comma">> -> <<cSymbol(<<",">>)>>
      [] cstItem.separator = <<"Semicolon">> -> <<cSymbol(<<";">>)>>
      [] OTHER -> <<>>

RECURSIVE visualizeTypeAnnotation(_, _)
RECURSIVE visualizeTypePackAnnotation(_, _, _)
RECURSIVE visualizeNamedTypeList(_, _, _, _, _, _, _, _)
RECURSIVE visualizeExpr(_, _)
RECURSIVE visualizeStat(_, _)
RECURSIVE visualizeFunctionBody(_, _)
RECURSIVE visualizeBlock(_, _)
RECURSIVE visualizeElseIf(_, _)

visualizeLocal(P, local) ==
    <<cAdvance(local.location.begin), cIdentifier(local.name)>>
    \o (IF P.writeTypes /\ local.annotation # <<>>
        THEN <<cSymbol(<<":">>)>> \o visualizeTypeAnnotation(P, local.annotation[1])
        ELSE <<>>)

visualizeTypeList(P, list, unconditionallyParenthesize, commaPositions) ==
    visualizeNamedTypeList(P, list, unconditionallyParenthesize, <<>>, <<>>, commaPositions, <<>>, <<>>)

visualizeTypePackAnnotation(P, annotation, forVarArg) ==
    <<cAdvance(annotation.location.begin)>>
    \o CASE annotation.kind = "TypePackVariadic" ->
              (IF ~forVarArg THEN <<cSymbol(symDots)>> ELSE <<>>)
              \o visualizeTypeAnnotation(P, annotation.variadicType)
         [] annotation.kind = "TypePackGeneric" ->
              <<cSymbol(annotation.genericName), cSymbol(symDots)>>
         [] annotation.kind = "TypePackExplicit" ->
              visualizeTypeList(P, annotation.typeList, TRUE, <<>>)

visualizeNamedTypeList(P, list, unconditionallyParenthesize, openParenthesesPosition, closeParenthesesPosition, commaPositions, argNames, argNamesColonPositions) ==
    LET typeCount == Len(list.types) + (IF list.tailType # <<>> THEN 1 ELSE 0)
        open == (IF openParenthesesPosition # <<>>
                 THEN <<cAdvance(openParenthesesPosition[1])>> ELSE <<>>)
                \o <<cSymbol(<<"(">>)>>
        close == (IF closeParenthesesPosition # <<>>
                  THEN <<cAdvance(closeParenthesesPosition[1])>> ELSE <<>>)
                 \o <<cSymbol(<<")">>)>>
        comma == CommaSeparatorInserter(commaPositions)
        argName == ArgNameInserter(argNames, argNamesColonPositions)
    IN  IF typeCount = 0 THEN open \o close
        ELSE IF typeCount = 1
        THEN (IF unconditionallyParenthesize THEN open ELSE <<>>)
             \o argNameCalls(argName)
             \o (IF Len(list.types) = 0
                 THEN visualizeTypePackAnnotation(P, list.tailType[1], FALSE)
                 ELSE visualizeTypeAnnotation(P, list.types[1]))
             \o (IF unconditionallyParenthesize THEN close ELSE <<>>)
        ELSE open
             \o Flatten([i \in 1..Len(list.types) |->
                    commaCalls(commaSteps(comma, i - 1))
                    \o argNameCalls(argNameSteps(argName, i - 1))
                    \o visualizeTypeAnnotation(P, list.types[i])])
             \o (IF list.tailType # <<>>
                 THEN commaCalls(commaSteps(comma, Len(list.types)))
                      \o argNameCalls(argNameSteps(argName, Len(list.types)))
                      \o visualizeTypePackAnnotation(P, list.tailType[1], FALSE)
                 ELSE <<>>)
             \o close

visualizeExpr(P, expr) ==
    LET c == CstOf(P, expr)
    IN
    <<cAdvance(expr.location.begin)>>
    \o CASE expr.kind = "ExprGroup" ->
              <<cSymbol(<<"(">>)>>
              \o visualizeExpr(P, expr.expr)
              \o <<cAdvance(Position(expr.location.end.line, USub(expr.location.end.column, 1))),
                   cSymbol(<<")">>)>>
         [] expr.kind = "ExprConstantNil" -> <<cKeyword(kwNil)>>
         [] expr.kind = "ExprConstantBool" ->
              IF expr.value THEN <<cKeyword(kwTrue)>> ELSE <<cKeyword(kwFalse)>>
         [] expr.kind = "ExprConstantNumber" ->
              IF c # NoCst THEN <<cLiteral(c.value)>>
              ELSE IF isinf(expr.value)
              THEN (IF ~expr.value.neg
                    THEN <<cLiteral(<<"1", "e", "5", "0", "0">>)>>
                    ELSE <<cLiteral(<<"-", "1", "e", "5", "0", "0">>)>>)
              ELSE IF isnan(expr.value) THEN <<cLiteral(<<"0", "/", "0">>)>>
              ELSE IF isIntegerish(expr.value)
              THEN <<cLiteral(to_string(toInt(expr.value)))>>
              ELSE <<cLiteral(format17g(expr.value))>>
         [] expr.kind = "ExprConstantString" ->
              IF c # NoCst
              THEN <<cSourceString(c.sourceString, c.quoteStyle, c.blockDepth)>>
              ELSE <<cString(expr.value)>>
         [] expr.kind = "ExprLocal" -> <<cIdentifier(expr.name)>>
         [] expr.kind = "ExprGlobal" -> <<cIdentifier(expr.name)>>
         [] expr.kind = "ExprVarargs" -> <<cSymbol(symDots)>>
         [] expr.kind = "ExprCall" ->
              visualizeExpr(P, expr.func)
              \o callOpenParens(c)
              \o WithCommas(CommaSeparatorInserter(IF c # NoCst THEN <<c.commaPositions>> ELSE <<>>),
                            [i \in 1..Len(expr.args) |-> visualizeExpr(P, expr.args[i])])
              \o callCloseParens(c)
         [] expr.kind = "ExprIndexName" ->
              visualizeExpr(P, expr.expr)
              \o <<cAdvance(expr.opPosition), cSymbol(<<expr.op>>),
                   cAdvance(expr.indexLocation.begin), cWrite(expr.index)>>
         [] expr.kind = "ExprIndexExpr" ->
              visualizeExpr(P, expr.expr)
              \o (IF c # NoCst THEN <<cAdvance(c.openBracketPosition)>> ELSE <<>>)
              \o <<cSymbol(<<"[">>)>>
              \o visualizeExpr(P, expr.index)
              \o (IF c # NoCst THEN <<cAdvance(c.closeBracketPosition)>> ELSE <<>>)
              \o <<cSymbol(<<"]">>)>>
         [] expr.kind = "ExprFunction" ->
              <<cKeyword(kwFunction)>> \o visualizeFunctionBody(P, expr)
         [] expr.kind = "ExprUnary" ->
              (IF c # NoCst THEN <<cAdvance(c.opPosition)>> ELSE <<>>)
              \o (CASE expr.op = "Not" -> <<cKeyword(kwNot)>>
                    [] expr.op = "Minus" -> <<cSymbol(<<"-">>)>>
                    [] expr.op = "Len" -> <<cSymbol(<<"#">>)>>)
              \o visualizeExpr(P, expr.expr)
         [] expr.kind = "ExprBinary" ->
              visualizeExpr(P, expr.left)
              \o (IF c # NoCst THEN <<cAdvance(c.opPosition)>>
                  ELSE <<cMaybeSpace(expr.right.location.begin, binaryReserve(expr.op))>>)
              \o <<cSymbol(opToString(expr.op))>>
              \o visualizeExpr(P, expr.right)
         [] expr.kind = "ExprTable" ->
              <<cSymbol(<<"{">>)>>
              \o Flatten([i \in 1..Len(expr.items) |->
                    LET item == expr.items[i]
                        hasItem == c # NoCst
                        cstItem == IF hasItem THEN c.items[i] ELSE NoCst
                    IN  (IF ~hasItem /\ i > 1 THEN <<cSymbol(<<",">>)>> ELSE <<>>)
                        \o (CASE item.kind = "List" -> <<>>
                              [] item.kind = "Record" ->
                                   <<cAdvance(item.key.location.begin), cIdentifier(item.key.value)>>
                                   \o (IF hasItem THEN <<cAdvance(cstItem.equalsLocation[1].begin)>>
                                       ELSE <<cMaybeSpace(item.value.location.begin, 1)>>)
                                   \o <<cSymbol(<<"=">>)>>
                              [] item.kind = "General" ->
                                   (IF hasItem
                                    THEN <<cAdvance(cstItem.indexerOpenLocation[1].begin)>>
                                    ELSE <<>>)
                                   \o <<cSymbol(<<"[">>)>>
                                   \o visualizeExpr(P, item.key)
                                   \o (IF hasItem
                                       THEN <<cAdvance(cstItem.indexerCloseLocation[1].begin)>>
                                       ELSE <<>>)
                                   \o <<cSymbol(<<"]">>)>>
                                   \o (IF hasItem THEN <<cAdvance(cstItem.equalsLocation[1].begin)>>
                                       ELSE <<cMaybeSpace(item.value.location.begin, 1)>>)
                                   \o <<cSymbol(<<"=">>)>>)
                        \o <<cAdvance(item.value.location.begin)>>
                        \o visualizeExpr(P, item.value)
                        \o (IF hasItem THEN separatorAdvance(cstItem) \o separatorSymbol(cstItem)
                            ELSE <<>>)])
              \o <<cAdvance(IF expr.location.end.column > 0
                            THEN Position(expr.location.end.line, expr.location.end.column - 1)
                            ELSE expr.location.end),
                   cSymbol(<<"}">>),
                   cAdvance(expr.location.end)>>
         [] expr.kind = "ExprInterpString" ->
              <<cSymbol(<<BT>>)>>
              \o Flatten([i \in 1..Len(expr.strings) |->
                    <<cWrite(escape(expr.strings[i], TRUE))>>
                    \o (IF hasHole(expr, i - 1)
                        THEN <<cSymbol(<<"{">>)>>
                             \o visualizeExpr(P, expr.expressions[i])
                             \o <<cSymbol(<<"}">>)>>
                        ELSE <<>>)])
              \o <<cSymbol(<<BT>>)>>
         [] expr.kind = "ExprTypeAssertion" ->
              visualizeExpr(P, expr.expr)
              \o (IF P.writeTypes
                  THEN (IF c # NoCst THEN <<cAdvance(c.opPosition)>>
                        ELSE <<cMaybeSpace(expr.annotation.location.begin, 2)>>)
                       \o <<cSymbol(<<":", ":">>)>>
                       \o visualizeTypeAnnotation(P, expr.annotation)
                  ELSE <<>>)

visualizeFunctionBody(P, func) ==
    LET c == CstOf(P, func)
        genericsComma == CommaSeparatorInserter(IF c # NoCst THEN <<c.genericsCommaPositions>> ELSE <<>>)
        comma == CommaSeparatorInserter(IF c # NoCst THEN <<c.argsCommaPositions>> ELSE <<>>)
    IN
    (IF Len(func.generics) > 0 \/ Len(func.genericPacks) > 0
     THEN (IF c # NoCst THEN <<cAdvance(c.openGenericsPosition)>> ELSE <<>>)
          \o <<cSymbol(<<"<">>)>>
          \o WithCommas(genericsComma,
                [i \in 1..Len(func.generics) |->
                    <<cAdvance(func.generics[i].location.begin),
                      cIdentifier(func.generics[i].name)>>])
          \o WithCommas(commaSteps(genericsComma, Len(func.generics)),
                [i \in 1..Len(func.genericPacks) |->
                    <<cAdvance(func.genericPacks[i].location.begin),
                      cIdentifier(func.genericPacks[i].name),
                      cSymbol(symDots)>>])
          \o (IF c # NoCst THEN <<cAdvance(c.closeGenericsPosition)>> ELSE <<>>)
          \o <<cSymbol(<<">">>)>>
     ELSE <<>>)
    \o (IF func.argLocation # <<>> THEN <<cAdvance(func.argLocation[1].begin)>> ELSE <<>>)
    \o <<cSymbol(<<"(">>)>>
    \o WithCommas(comma,
          [i \in 1..Len(func.args) |->
              <<cAdvance(func.args[i].location.begin), cIdentifier(func.args[i].name)>>
              \o (IF P.writeTypes /\ func.args[i].annotation # <<>>
                  THEN <<cSymbol(<<":">>)>> \o visualizeTypeAnnotation(P, func.args[i].annotation[1])
                  ELSE <<>>)])
    \o (IF func.vararg
        THEN commaCalls(commaSteps(comma, Len(func.args)))
             \o <<cAdvance(func.varargLocation.begin), cSymbol(symDots)>>
             \o (IF func.varargAnnotation # <<>>
                 THEN <<cSymbol(<<":">>)>>
                      \o visualizeTypePackAnnotation(P, func.varargAnnotation[1], TRUE)
                 ELSE <<>>)
        ELSE <<>>)
    \o (IF func.argLocation # <<>>
        THEN <<cAdvance(Position(func.argLocation[1].end.line,
                                 USub(func.argLocation[1].end.column, 1)))>>
        ELSE <<>>)
    \o <<cSymbol(<<")">>)>>
    \o (IF P.writeTypes /\ func.returnAnnotation # <<>>
        THEN (IF c # NoCst THEN <<cAdvance(c.returnSpecifierPosition)>> ELSE <<>>)
             \o <<cSymbol(<<":">>), cSpace>>
             \o visualizeTypeList(P, func.returnAnnotation[1], FALSE, <<>>)
        ELSE <<>>)
    \o visualizeBlock(P, func.body)
    \o writeEnd(func.location)

visualizeBlock(P, block) ==
    Flatten([i \in 1..Len(block.body) |-> visualizeStat(P, block.body[i])])
    \o <<cAdvance(block.location.end)>>

kwRead == <<"r", "e", "a", "d">>
kwWrite == <<"w", "r", "i", "t", "e">>

\* the access keyword of a table property or indexer, at its recorded place
accessCalls(x) ==
    IF x.accessLocation # <<>>
    THEN <<cAdvance(x.accessLocation[1].begin),
           cKeyword(IF x.access = "Read" THEN kwRead ELSE kwWrite)>>
    ELSE <<>>

\* the separator recorded after a table item
separatorCalls(item) ==
    IF item.separator # <<>>
    THEN <<cAdvance(item.separatorPosition[1])>>
         \o (IF item.separator[1] = "Comma" THEN <<cSymbol(<<",">>)>>
             ELSE IF item.separator[1] = "Semicolon" THEN <<cSymbol(<<";">>)>>
             ELSE <<>>)
    ELSE <<>>

\* the property that item i stands for: prop is stepped after each item
\* that is not the indexer
propIndex(items, i) == 1 + Cardinality({j \in 1..(i - 1) : items[j].kind # "Indexer"})

\* no table type is taken for an array
isNumberArrayNever(a) == FALSE

\* a table type with no property and an indexer keyed by the reference number
isNumberArray(a) ==
    /\ Len(a.props) = 0
    /\ a.indexer # <<>>
    /\ a.indexer[1].indexType.kind = "TypeReference"
    /\ a.indexer[1].indexType.name = <<"n", "u", "m", "b", "e", "r">>

\* no member is taken for nil
isNilReferenceNever(t) == FALSE

isNilReference(t) == t.kind = "TypeReference" /\ t.name = kwNil

\* a member printed bare whatever its kind
wrappedNever(P, t, wrap) == visualizeTypeAnnotation(P, t)

\* a member of a union or intersection, in parentheses when wrap holds
wrapped(P, t, wrap) ==
    (IF wrap THEN <<cSymbol(<<"(">>)>> ELSE <<>>)
    \o visualizeTypeAnnotation(P, t)
    \o (IF wrap THEN <<cSymbol(<<")">>)>> ELSE <<>>)

visualizeTypeAnnotation(P, typeAnnotation) ==
    LET a == typeAnnotation
        c == CstOf(P, typeAnnotation)
    IN
    <<cAdvance(a.location.begin)>>
    \o CASE a.kind = "TypeReference" ->
              (IF a.prefix # <<>>
               THEN <<cWrite(a.prefix[1])>>
                    \o (IF c # NoCst THEN <<cAdvance(c.prefixPointPosition[1])>> ELSE <<>>)
                    \o <<cSymbol(<<".">>)>>
               ELSE <<>>)
              \o <<cAdvance(a.nameLocation.begin), cWrite(a.name)>>
              \o (IF Len(a.parameters) > 0 \/ a.hasParameterList
                  THEN (IF c # NoCst THEN <<cAdvance(c.openParametersPosition)>> ELSE <<>>)
                       \o <<cSymbol(<<"<">>)>>
                       \o WithCommas(
                            CommaSeparatorInserter(
                                IF c # NoCst THEN <<c.parametersCommaPositions>> ELSE <<>>),
                            [i \in 1..Len(a.parameters) |->
                                IF a.parameters[i].type # <<>>
                                THEN visualizeTypeAnnotation(P, a.parameters[i].type[1])
                                ELSE visualizeTypePackAnnotation(P, a.parameters[i].typePack[1], FALSE)])
                       \o (IF c # NoCst THEN <<cAdvance(c.closeParametersPosition)>> ELSE <<>>)
                       \o <<cSymbol(<<">">>)>>
                  ELSE <<>>)
         [] a.kind = "TypeFunction" ->
              LET comma == CommaSeparatorInserter(
                              IF c # NoCst THEN <<c.genericsCommaPositions>> ELSE <<>>)
              IN
              (IF Len(a.generics) > 0 \/ Len(a.genericPacks) > 0
               THEN (IF c # NoCst THEN <<cAdvance(c.openGenericsPosition)>> ELSE <<>>)
                    \o <<cSymbol(<<"<">>)>>
                    \o WithCommas(comma,
                          [i \in 1..Len(a.generics) |->
                              <<cAdvance(a.generics[i].location.begin),
                                cIdentifier(a.generics[i].name)>>])
                    \o WithCommas(commaSteps(comma, Len(a.generics)),
                          [i \in 1..Len(a.genericPacks) |->
                              <<cAdvance(a.genericPacks[i].location.begin),
                                cIdentifier(a.genericPacks[i].name),
                                cSymbol(symDots)>>])
                    \o (IF c # NoCst THEN <<cAdvance(c.closeGenericsPosition)>> ELSE <<>>)
                    \o <<cSymbol(<<">">>)>>
               ELSE <<>>)
              \o visualizeNamedTypeList(P, a.argTypes, TRUE,
                    IF c # NoCst THEN <<c.openArgsPosition>> ELSE <<>>,
                    IF c # NoCst THEN <<c.closeArgsPosition>> ELSE <<>>,
                    IF c # NoCst THEN <<c.argumentsCommaPositions>> ELSE <<>>,
                    IF a.argNames # <<>> THEN <<a.argNames>> ELSE <<>>,
                    IF c # NoCst THEN <<c.argumentNameColonPositions>> ELSE <<>>)
              \o (IF c # NoCst THEN <<cAdvance(c.returnArrowPosition)>> ELSE <<>>)
              \o <<cSymbol(<<"-", ">">>), cSpace>>
              \o visualizeTypeList(P, a.returnTypes, TRUE, <<>>)
         [] a.kind = "TypeTable" ->
              LET endPos == IF a.location.end.column > 0
                            THEN Position(a.location.end.line, a.location.end.column - 1)
                            ELSE a.location.end
                  comma == CommaSeparatorInserter(<<>>)
              IN
              <<cSymbol(<<"{">>)>>
              \o (IF c # NoCst
                  THEN (IF c.isArray
                        THEN accessCalls(a.indexer[1])
                             \o visualizeTypeAnnotation(P, a.indexer[1].resultType)
                        ELSE Flatten([i \in 1..Len(c.items) |->
                                IF c.items[i].kind = "Indexer"
                                THEN accessCalls(a.indexer[1])
                                     \o <<cAdvance(c.items[i].indexerOpenPosition),
                                          cSymbol(<<"[">>)>>
                                     \o visualizeTypeAnnotation(P, a.indexer[1].indexType)
                                     \o <<cAdvance(c.items[i].indexerClosePosition),
                                          cSymbol(<<"]">>),
                                          cAdvance(c.items[i].colonPosition),
                                          cSymbol(<<":">>)>>
                                     \o visualizeTypeAnnotation(P, a.indexer[1].resultType)
                                     \o separatorCalls(c.items[i])
                                ELSE LET prop == a.props[propIndex(c.items, i)]
                                     IN  accessCalls(prop)
                                         \o (IF c.items[i].kind = "StringProperty"
                                             THEN <<cAdvance(c.items[i].indexerOpenPosition),
                                                    cSymbol(<<"[">>),
                                                    cSourceString(c.items[i].stringInfo.sourceString,
                                                                  c.items[i].stringInfo.quoteStyle,
                                                                  c.items[i].stringInfo.blockDepth),
                                                    cAdvance(c.items[i].indexerClosePosition),
                                                    cSymbol(<<"]">>)>>
                                             ELSE <<cAdvance(prop.location.begin),
                                                    cIdentifier(prop.name)>>)
                                         \o <<cAdvance(c.items[i].colonPosition),
                                              cSymbol(<<":">>)>>
                                         \o visualizeTypeAnnotation(P, prop.type)
                                         \o separatorCalls(c.items[i])]))
                  ELSE (IF isNumberArray(a)
                        THEN visualizeTypeAnnotation(P, a.indexer[1].resultType)
                        ELSE WithCommas(comma,
                                [i \in 1..Len(a.props) |->
                                    <<cAdvance(a.props[i].location.begin),
                                      cIdentifier(a.props[i].name), cSymbol(<<":">>)>>
                                    \o visualizeTypeAnnotation(P, a.props[i].type)])
                             \o (IF a.indexer # <<>>
                                 THEN commaCalls(commaSteps(comma, Len(a.props)))
                                      \o <<cSymbol(<<"[">>)>>
                                      \o visualizeTypeAnnotation(P, a.indexer[1].indexType)
                                      \o <<cSymbol(<<"]">>), cSymbol(<<":">>)>>
                                      \o visualizeTypeAnnotation(P, a.indexer[1].resultType)
                                 ELSE <<>>)))
              \o <<cAdvance(endPos), cSymbol(<<"}">>)>>
         [] a.kind = "TypeTypeof" ->
              <<cKeyword(<<"t", "y", "p", "e", "o", "f">>)>>
              \o (IF c # NoCst THEN <<cAdvance(c.openPosition)>> ELSE <<>>)
              \o <<cSymbol(<<"(">>)>>
              \o visualizeExpr(P, a.expr)
              \o (IF c # NoCst THEN <<cAdvance(c.closePosition)>> ELSE <<>>)
              \o <<cSymbol(<<")">>)>>
         [] a.kind = "TypeUnion" ->
              LET swap == Len(a.types) = 2 /\ isNilReference(a.types[1])
                  l == IF swap THEN a.types[2] ELSE a.types[1]
                  r == IF swap THEN a.types[1] ELSE a.types[2]
              IN  IF Len(a.types) = 2 /\ isNilReference(r)
                  THEN wrapped(P, l, l.kind \in {"TypeIntersection", "TypeFunction"})
                       \o <<cSymbol(<<"?">>)>>
                  ELSE Flatten([i \in 1..Len(a.types) |->
                          (IF i > 1
                           THEN <<cMaybeSpace(a.types[i].location.begin, 2), cSymbol(<<"|">>)>>
                           ELSE <<>>)
                          \o wrapped(P, a.types[i],
                                     a.types[i].kind \in {"TypeIntersection", "TypeFunction"})])
         [] a.kind = "TypeIntersection" ->
              Flatten([i \in 1..Len(a.types) |->
                  (IF i > 1
                   THEN <<cMaybeSpace(a.types[i].location.begin, 2), cSymbol(<<"&">>)>>
                   ELSE <<>>)
                  \o wrapped(P, a.types[i], a.types[i].kind \in {"TypeUnion", "TypeFunction"})])
         [] a.kind = "TypeSingletonBool" ->
              <<cKeyword(IF a.value THEN kwTrue ELSE kwFalse)>>
         [] a.kind = "TypeSingletonString" ->
              IF c # NoCst
              THEN <<cSourceString(c.sourceString, c.quoteStyle, c.blockDepth)>>
              ELSE <<cString(a.value)>>
         [] a.kind = "TypeError" ->
              <<cSymbol(<<"%", "e", "r", "r", "o", "r", "-", "t", "y", "p", "e", "%">>)>>

\* a generic or generic pack of a type alias, with its default value
aliasGeneric(P, o, isPack) ==
    <<cAdvance(o.location.begin), cIdentifier(o.name)>>
    \o (IF isPack THEN <<cSymbol(symDots)>> ELSE <<>>)
    \o (IF o.defaultValue # <<>>
        THEN <<cMaybeSpace(o.defaultValue[1].location.begin, 2), cSymbol(<<"=">>)>>
             \o (IF isPack
                 THEN visualizeTypePackAnnotation(P, o.defaultValue[1], FALSE)
                 ELSE visualizeTypeAnnotation(P, o.defaultValue[1]))
        ELSE <<>>)

\* until is written wherever the cursor is
untilAdvanceNever(c, a) == <<>>

\* the advance before until of the repeat statement a whose CST record, if
\* any, is c
untilAdvance(c, a) ==
    IF c # NoCst THEN <<cAdvance(c.untilPosition)>>
    ELSE IF a.condition.location.begin.column > 5
    THEN <<cAdvance(Position(a.condition.location.begin.line,
                             a.condition.location.begin.column - 6))>>
    ELSE <<>>

\* every else-body is introduced by else
elseKeywordElse(elseif) == kwElse

\* an else-body that is itself an if statement continues the chain
elseKeyword(elseif) == IF elseif.elsebody[1].kind = "StatIf" THEN kwElseif ELSE kwElse

visualizeElseIf(P, elseif) ==
    visualizeExpr(P, elseif.condition)
    \o (IF elseif.thenLocation # <<>> THEN <<cAdvance(elseif.thenLocation[1].begin)>> ELSE <<>>)
    \o <<cKeyword(kwThen)>>
    \o visualizeBlock(P, elseif.thenbody)
    \o (IF elseif.elsebody = <<>>
        THEN writeEnd(elseif.location)
        ELSE (IF elseif.elseLocation # <<>>
              THEN <<cAdvance(elseif.elseLocation[1].begin)>>
              ELSE <<>>)
             \o <<cKeyword(elseKeyword(elseif))>>
             \o (IF elseif.elsebody[1].kind = "StatIf"
                 THEN visualizeElseIf(P, elseif.elsebody[1])
                 ELSE visualizeBlock(P, elseif.elsebody[1]) \o writeEnd(elseif.location)))

visualizeStat(P, program) ==
    LET a == program
        c == CstOf(P, program)
        body ==
       CASE a.kind = "StatBlock" ->
              <<cKeyword(kwDo)>>
              \o Flatten([i \in 1..Len(a.body) |-> visualizeStat(P, a.body[i])])
              \o (IF c # NoCst THEN <<cAdvance(c.endPosition), cKeyword(kwEnd)>>
                  ELSE writeEnd(program.location))
         [] a.kind = "StatIf" -> <<cKeyword(kwIf)>> \o visualizeElseIf(P, a)
         [] a.kind = "StatRepeat" ->
              <<cKeyword(kwRepeat)>>
              \o visualizeBlock(P, a.body)
              \o untilAdvance(c, a)
              \o <<cKeyword(kwUntil)>>
              \o visualizeExpr(P, a.condition)
         [] a.kind = "StatBreak" -> <<cKeyword(<<"b", "r", "e", "a", "k">>)>>
         [] a.kind = "StatContinue" -> <<cKeyword(<<"c", "o", "n", "t", "i", "n", "u", "e">>)>>
         [] a.kind = "StatReturn" ->
              <<cKeyword(kwReturn)>>
              \o WithCommas(CommaSeparatorInserter(IF c # NoCst THEN <<c.commaPositions>> ELSE <<>>),
                    [i \in 1..Len(a.list) |-> visualizeExpr(P, a.list[i])])
         [] a.kind = "StatExpr" -> visualizeExpr(P, a.expr)
         [] a.kind = "StatLocal" ->
              <<cKeyword(kwLocal)>>
              \o WithCommas(CommaSeparatorInserter(IF c # NoCst THEN <<c.varsCommaPositions>> ELSE <<>>),
                    [i \in 1..Len(a.vars) |-> visualizeLocal(P, a.vars[i])])
              \o (IF a.equalsSignLocation # <<>>
                  THEN <<cAdvance(a.equalsSignLocation[1].begin), cSymbol(<<"=">>)>>
                  ELSE <<>>)
              \o WithCommas(CommaSeparatorInserter(IF c # NoCst THEN <<c.valuesCommaPositions>> ELSE <<>>),
                    [i \in 1..Len(a.values) |-> visualizeExpr(P, a.values[i])])
         [] a.kind = "StatFunction" ->
              <<cKeyword(kwFunction)>>
              \o visualizeExpr(P, a.name)
              \o visualizeFunctionBody(P, a.func)
         [] a.kind = "StatLocalFunction" ->
              <<cKeyword(kwLocal)>>
              \o (IF c # NoCst THEN <<cAdvance(c.functionKeywordPosition)>> ELSE <<cSpace>>)
              \o <<cKeyword(kwFunction), cAdvance(a.name.location.begin), cIdentifier(a.name.name)>>
              \o visualizeFunctionBody(P, a.func)
         [] a.kind = "StatTypeAlias" ->
              IF P.writeTypes
              THEN (IF a.exported THEN <<cKeyword(kwExport)>> ELSE <<>>)
                   \o (IF c # NoCst THEN <<cAdvance(c.typeKeywordPosition)>> ELSE <<>>)
                   \o <<cKeyword(kwType), cAdvance(a.nameLocation.begin), cIdentifier(a.name)>>
                   \o (IF Len(a.generics) > 0 \/ Len(a.genericPacks) > 0
                       THEN LET comma == CommaSeparatorInserter(
                                    IF c # NoCst THEN <<c.genericsCommaPositions>> ELSE <<>>)
                            IN  (IF c # NoCst THEN <<cAdvance(c.genericsOpenPosition)>> ELSE <<>>)
                                \o <<cSymbol(<<"<">>)>>
                                \o WithCommas(comma,
                                      [i \in 1..Len(a.generics) |->
                                          aliasGeneric(P, a.generics[i], FALSE)])
                                \o WithCommas(commaSteps(comma, Len(a.generics)),
                                      [i \in 1..Len(a.genericPacks) |->
                                          aliasGeneric(P, a.genericPacks[i], TRUE)])
                                \o (IF c # NoCst THEN <<cAdvance(c.genericsClosePosition)>> ELSE <<>>)
                                \o <<cSymbol(<<">">>)>>
                       ELSE <<>>)
                   \o (IF c # NoCst THEN <<cAdvance(c.equalsPosition)>>
                       ELSE <<cMaybeSpace(a.type.location.begin, 2)>>)
                   \o <<cSymbol(<<"=">>)>>
                   \o visualizeTypeAnnotation(P, a.type)
              ELSE <<>>
         [] a.kind = "StatTypeFunction" ->
              IF P.writeTypes
              THEN (IF a.exported THEN <<cKeyword(kwExport)>> ELSE <<>>)
                   \o (IF c # NoCst THEN <<cAdvance(c.typeKeywordPosition)>> ELSE <<cSpace>>)
                   \o <<cKeyword(kwType)>>
                   \o (IF c # NoCst THEN <<cAdvance(c.functionKeywordPosition)>> ELSE <<cSpace>>)
                   \o <<cKeyword(kwFunction), cAdvance(a.nameLocation.begin), cIdentifier(a.name)>>
                   \o visualizeFunctionBody(P, a.body)
              ELSE <<>>
    IN
    <<cAdvance(program.location.begin)>>
    \o body
    \o (IF program.hasSemicolon
        THEN <<cAdvance(Position(program.location.end.line, USub(program.location.end.column, 1))),
               cSymbol(<<";">>)>>
        ELSE <<>>)

(***************************************************************************)
(* Sources and their parse.  A source is a line of lexemes, each with the  *)
(* number of spaces before it; the parser gives every node the position of *)
(* its lexemes and, with storeCstData, the CST records of Cst.h.           *)
(***************************************************************************)
MaxGap == 1

Lex(text, gap) == [text |-> text, gap |-> gap, nl |-> FALSE]

\* a lexeme that starts a new line: a line feed, then gap spaces, then text
LexNL(text, gap) == [text |-> text, gap |-> gap, nl |-> TRUE]

RECURSIVE Width(_)
Width(lex) ==
    IF lex = <<>> THEN 0 ELSE Head(lex).gap + Len(Head(lex).text) + Width(Tail(lex))

\* the line of lexeme i, and the first lexeme of that line
LineOf(lex, i) == Cardinality({j \in 1..i : lex[j].nl})
LineHead(lex, i) ==
    IF LineOf(lex, i) = 0 THEN 1
    ELSE CHOOSE j \in 1..i : lex[j].nl /\ \A k \in (j + 1)..i : ~lex[k].nl

StartCol(lex, i) == Width(SubSeq(lex, LineHead(lex, i), i - 1)) + lex[i].gap
EndCol(lex, i) == StartCol(lex, i) + Len(lex[i].text)
PosOf(lex, i) == Position(LineOf(lex, i), StartCol(lex, i))
EndOf(lex, i) == Position(LineOf(lex, i), EndCol(lex, i))
LocOf(lex, i) == Location(PosOf(lex, i), EndOf(lex, i))
Span(lex, i, j) == Location(PosOf(lex, i), EndOf(lex, j))

SourceText(lex) ==
    Flatten([i \in 1..Len(lex) |->
                (IF lex[i].nl THEN <<NL>> ELSE <<>>) \o Repeat(SP, lex[i].gap) \o lex[i].text])

\* two characters that the lexer reads as one longer or different token
Fuses(x, y) ==
    \/ <<x, y>> \in {<<"-", "-">>, <<".", ".">>, <<"=", "=">>, <<"<", "=">>, <<">", "=">>,
                     <<"~", "=">>, <<"/", "/">>, <<":", ":">>, <<"[", "[">>, <<"[", "=">>}
    \/ isDigit(x) /\ y = "."

Clash(x, y) == (isIdentifierChar(x) /\ isIdentifierChar(y)) \/ Fuses(x, y)

\* no two neighbouring lexemes of the source run together
SourceOK(lex) ==
    \A i \in 2..Len(lex) :
        (lex[i].gap = 0 /\ ~lex[i].nl) => ~Clash(lex[i - 1].text[Len(lex[i - 1].text)], lex[i].text[1])

TypeRef(id, name, loc) ==
    [kind |-> "TypeReference", id |-> id, location |-> loc, prefix |-> <<>>, name |-> name,
     nameLocation |-> loc, parameters |-> <<>>, hasParameterList |-> FALSE]

Global(id, name, loc) == [kind |-> "ExprGlobal", id |-> id, location |-> loc, name |-> name]

Number(id, value, loc) ==
    [kind |-> "ExprConstantNumber", id |-> id, location |-> loc, value |-> value]

(***************************************************************************)
(* Type annotations of the type scenarios.  A shape says how the type is   *)
(* built; its lexemes are its source, its node and CST records what the    *)
(* parser makes of it when its first lexeme is lex[i].                     *)
(***************************************************************************)
Shape(k, name, variant, types) == [k |-> k, name |-> name, variant |-> variant, types |-> types]

R(name) == Shape("ref", name, "", <<>>)
U(types) == Shape("union", <<>>, "", types)
I(types) == Shape("inter", <<>>, "", types)
F(variant) == Shape("func", <<>>, variant, <<>>)
Tbl(variant) == Shape("table", <<>>, variant, <<>>)

tT == R(<<"T">>)
tU == R(<<"U">>)
tNil == R(kwNil)
symArrow == <<"-", ">">>
nameNumber == <<"n", "u", "m", "b", "e", "r">>

\* a member that the grammar wants in parentheses
NeedsParens(parent, m) ==
    \/ m.k = "func"
    \/ parent.k = "union" /\ m.k = "inter"
    \/ parent.k = "inter" /\ m.k = "union"

FuncLex(variant, gap) ==
    CASE variant = "none" ->
            <<Lex(<<"(">>, gap), Lex(<<")">>, 0), Lex(symArrow, 1), Lex(<<"T">>, 1)>>
      [] variant = "named" ->
            <<Lex(<<"(">>, gap), Lex(<<"a">>, 0), Lex(<<":">>, 1), Lex(<<"T">>, 1),
              Lex(<<",">>, 0), Lex(<<"b">>, 1), Lex(<<":">>, 1), Lex(<<"T">>, 1),
              Lex(<<")">>, 0), Lex(symArrow, 1), Lex(<<"T">>, 1)>>
      [] variant = "second" ->
            <<Lex(<<"(">>, gap), Lex(<<"T">>, 0),
              Lex(<<",">>, 0), Lex(<<"b">>, 1), Lex(<<":">>, 1), Lex(<<"T">>, 1),
              Lex(<<")">>, 0), Lex(symArrow, 1), Lex(<<"T">>, 1)>>
      [] variant = "first" ->
            <<Lex(<<"(">>, gap), Lex(<<"a">>, 0), Lex(<<":">>, 1), Lex(<<"T">>, 1),
              Lex(<<",">>, 0), Lex(<<"T">>, 1),
              Lex(<<")">>, 0), Lex(symArrow, 1), Lex(<<"T">>, 1)>>

TableLex(variant, gap) ==
    CASE variant = "array" ->
            <<Lex(<<"{">>, gap), Lex(<<"T">>, 1), Lex(<<"}">>, 1)>>
      [] variant = "readarray" ->
            <<Lex(<<"{">>, gap), Lex(kwRead, 1), Lex(<<"T">>, 1), Lex(<<"}">>, 1)>>
      [] variant = "indexer" ->
            <<Lex(<<"{">>, gap), Lex(<<"[">>, 1), Lex(nameNumber, 0), Lex(<<"]">>, 0),
              Lex(<<":">>, 0), Lex(<<"T">>, 1), Lex(<<"}">>, 1)>>
      [] variant = "writeindexer" ->
            <<Lex(<<"{">>, gap), Lex(kwWrite, 1), Lex(<<"[">>, 1), Lex(<<"T">>, 0),
              Lex(<<"]">>, 0), Lex(<<":">>, 0), Lex(<<"T">>, 1), Lex(<<"}">>, 1)>>
      [] variant = "props" ->
            <<Lex(<<"{">>, gap),
              Lex(kwRead, 1), Lex(<<"a">>, 1), Lex(<<":">>, 0), Lex(<<"T">>, 1), Lex(<<",">>, 0),
              Lex(kwWrite, 1), Lex(<<"b">>, 1), Lex(<<":">>, 0), Lex(<<"T">>, 1), Lex(<<",">>, 0),
              Lex(<<"c">>, 1), Lex(<<":">>, 0), Lex(<<"T">>, 1),
              Lex(<<"}">>, 1)>>

RECURSIVE ShapeLex(_, _)
ShapeLex(sh, gap) ==
    CASE sh.k = "ref" -> <<Lex(sh.name, gap)>>
      [] sh.k = "func" -> FuncLex(sh.variant, gap)
      [] sh.k = "table" -> TableLex(sh.variant, gap)
      [] OTHER ->
            Flatten([j \in 1..Len(sh.types) |->
                LET g == IF j = 1 THEN gap ELSE 1
                    m == sh.types[j]
                IN  (IF j > 1
                     THEN <<Lex(IF sh.k = "union" THEN <<"|">> ELSE <<"&">>, 1)>>
                     ELSE <<>>)
                    \o (IF NeedsParens(sh, m)
                        THEN <<Lex(<<"(">>, g)>> \o ShapeLex(m, 0) \o <<Lex(<<")">>, 0)>>
                        ELSE ShapeLex(m, g))])

\* the index of the first lexeme of member j of a union or intersection
MemberStart(sh, i, j) ==
    i + Len(ShapeLex([sh EXCEPT !.types = SubSeq(sh.types, 1, j - 1)], 0))
      + (IF j > 1 THEN 1 ELSE 0)
      + (IF NeedsParens(sh, sh.types[j]) THEN 1 ELSE 0)

\* node ids: one per first lexeme and depth
ShapeId(i, depth) == 100 + 8 * i + depth

ArgName(lex, i) == [value |-> lex[i].text, location |-> LocOf(lex, i)]

TypeList(types) == [types |-> types, tailType |-> <<>>]

FuncNode(variant, lex, i, id) ==
    LET n == Len(FuncLex(variant, 0))
        ref(k) == TypeRef(ShapeId(k, 7), lex[k].text, LocOf(lex, k))
    IN  [kind |-> "TypeFunction", id |-> id, location |-> Span(lex, i, i + n - 1),
         generics |-> <<>>, genericPacks |-> <<>>,
         argTypes |->
            TypeList(CASE variant = "none" -> <<>>
                       [] variant = "named" -> <<ref(i + 3), ref(i + 7)>>
                       [] variant = "second" -> <<ref(i + 1), ref(i + 5)>>
                       [] variant = "first" -> <<ref(i + 3), ref(i + 5)>>),
         argNames |->
            CASE variant = "none" -> <<>>
              [] variant = "named" -> <<<<ArgName(lex, i + 1)>>, <<ArgName(lex, i + 5)>>>>
              [] variant = "second" -> <<<<>>, <<ArgName(lex, i + 3)>>>>
              [] variant = "first" -> <<<<ArgName(lex, i + 1)>>, <<>>>>,
         returnTypes |-> TypeList(<<ref(i + n - 1)>>)]

FuncCst(variant, lex, i) ==
    LET n == Len(FuncLex(variant, 0))
    IN  [kind |-> "TypeFunction",
         openGenericsPosition |-> NoPos, genericsCommaPositions |-> <<>>,
         closeGenericsPosition |-> NoPos,
         openArgsPosition |-> PosOf(lex, i),
         argumentNameColonPositions |->
            CASE variant = "none" -> <<>>
              [] variant = "named" -> <<<<PosOf(lex, i + 2)>>, <<PosOf(lex, i + 6)>>>>
              [] variant = "second" -> <<<<>>, <<PosOf(lex, i + 4)>>>>
              [] variant = "first" -> <<<<PosOf(lex, i + 2)>>, <<>>>>,
         argumentsCommaPositions |->
            CASE variant = "none" -> <<>>
              [] variant = "named" -> <<PosOf(lex, i + 4)>>
              [] variant = "second" -> <<PosOf(lex, i + 2)>>
              [] variant = "first" -> <<PosOf(lex, i + 4)>>,
         closeArgsPosition |-> PosOf(lex, i + n - 3),
         returnArrowPosition |-> PosOf(lex, i + n - 2)]

TableMember(lex, nameAt, typeAt, access, accessAt) ==
    [name |-> IF nameAt > 0 THEN lex[nameAt].text ELSE <<>>,
     location |-> LocOf(lex, IF nameAt > 0 THEN nameAt ELSE typeAt),
     type |-> TypeRef(ShapeId(typeAt, 7), lex[typeAt].text, LocOf(lex, typeAt)),
     access |-> access,
     accessLocation |-> IF accessAt > 0 THEN <<LocOf(lex, accessAt)>> ELSE <<>>]

\* the indexer of a table type: its key at keyAt (number when the source has
\* the array form), its value at typeAt
Indexer(lex, keyAt, typeAt, access, accessAt) ==
    [location |-> LocOf(lex, typeAt),
     indexType |-> TypeRef(ShapeId(typeAt, 6),
                           IF keyAt > 0 THEN lex[keyAt].text ELSE nameNumber,
                           LocOf(lex, IF keyAt > 0 THEN keyAt ELSE typeAt)),
     resultType |-> TypeRef(ShapeId(typeAt, 7), lex[typeAt].text, LocOf(lex, typeAt)),
     access |-> access,
     accessLocation |-> IF accessAt > 0 THEN <<LocOf(lex, accessAt)>> ELSE <<>>]

TableNode(variant, lex, i, id) ==
    LET n == Len(TableLex(variant, 0))
    IN  [kind |-> "TypeTable", id |-> id, location |-> Span(lex, i, i + n - 1),
         props |->
            IF variant = "props"
            THEN <<TableMember(lex, i + 2, i + 4, "Read", i + 1),
                   TableMember(lex, i + 7, i + 9, "Write", i + 6),
                   TableMember(lex, i + 11, i + 13, "ReadWrite", 0)>>
            ELSE <<>>,
         indexer |->
            CASE variant = "array" -> <<Indexer(lex, 0, i + 1, "ReadWrite", 0)>>
              [] variant = "readarray" -> <<Indexer(lex, 0, i + 2, "Read", i + 1)>>
              [] variant = "indexer" -> <<Indexer(lex, i + 2, i + 5, "ReadWrite", 0)>>
              [] variant = "writeindexer" -> <<Indexer(lex, i + 3, i + 6, "Write", i + 1)>>
              [] OTHER -> <<>>]

Item(kind, lex, openAt, closeAt, colonAt, commaAt) ==
    [kind |-> kind,
     indexerOpenPosition |-> IF openAt > 0 THEN PosOf(lex, openAt) ELSE NoPos,
     indexerClosePosition |-> IF closeAt > 0 THEN PosOf(lex, closeAt) ELSE NoPos,
     colonPosition |-> PosOf(lex, colonAt),
     separator |-> IF commaAt > 0 THEN <<"Comma">> ELSE <<>>,
     separatorPosition |-> IF commaAt > 0 THEN <<PosOf(lex, commaAt)>> ELSE <<>>]

TableCst(variant, lex, i) ==
    [kind |-> "TypeTable",
     isArray |-> variant \in {"array", "readarray"},
     items |->
        CASE variant = "indexer" -> <<Item("Indexer", lex, i + 1, i + 3, i + 4, 0)>>
          [] variant = "writeindexer" -> <<Item("Indexer", lex, i + 2, i + 4, i + 5, 0)>>
          [] variant = "props" ->
                <<Item("Property", lex, 0, 0, i + 3, i + 5),
                  Item("Property", lex, 0, 0, i + 8, i + 10),
                  Item("Property", lex, 0, 0, i + 12, 0)>>
          [] OTHER -> <<>>]

RECURSIVE ShapeNode(_, _, _, _)
ShapeNode(sh, lex, i, depth) ==
    LET id == ShapeId(i, depth)
    IN
    CASE sh.k = "ref" -> TypeRef(id, sh.name, LocOf(lex, i))
      [] sh.k = "func" -> FuncNode(sh.variant, lex, i, id)
      [] sh.k = "table" -> TableNode(sh.variant, lex, i, id)
      [] OTHER ->
            [kind |-> IF sh.k = "union" THEN "TypeUnion" ELSE "TypeIntersection",
             id |-> id,
             location |-> Span(lex, i, i + Len(ShapeLex(sh, 0)) - 1),
             types |-> [j \in 1..Len(sh.types) |->
                           ShapeNode(sh.types[j], lex, MemberStart(sh, i, j), depth + 1)]]

RECURSIVE ShapeCst(_, _, _, _)
ShapeCst(sh, lex, i, depth) ==
    CASE sh.k = "ref" -> <<>>
      [] sh.k = "func" -> ShapeId(i, depth) :> FuncCst(sh.variant, lex, i)
      [] sh.k = "table" -> ShapeId(i, depth) :> TableCst(sh.variant, lex, i)
      [] OTHER ->
            LET maps == [j \in 1..Len(sh.types) |->
                            ShapeCst(sh.types[j], lex, MemberStart(sh, i, j), depth + 1)]
                merge[j \in 0..Len(maps)] == IF j = 0 THEN <<>> ELSE maps[j] @@ merge[j - 1]
            IN  merge[Len(maps)]

\* the types of the type scenarios, by name
TypeNames ==
    {"T|nil", "nil|T", "nil|nil", "T|U", "nil|T|U", "T|U|nil", "(T&U)|nil", "nil|(T&U)",
     "(()->T)|nil", "{T}|nil", "T|(T&U)", "(T&U)|U|T", "(()->T)|U", "T&U", "T&(T|U)",
     "T&(()->T)", "T&U&T", "(T|nil)&U",
     "{T}", "{read T}", "{[number]:T}", "{write [T]:T}", "{read a:T,write b:T,c:T}",
     "()->T", "(a:T,b:T)->T", "(T,b:T)->T", "(a:T,T)->T"}

TypeShape(x) ==
    CASE x = "T|nil" -> U(<<tT, tNil>>)
      [] x = "nil|T" -> U(<<tNil, tT>>)
      [] x = "nil|nil" -> U(<<tNil, tNil>>)
      [] x = "T|U" -> U(<<tT, tU>>)
      [] x = "nil|T|U" -> U(<<tNil, tT, tU>>)
      [] x = "T|U|nil" -> U(<<tT, tU, tNil>>)
      [] x = "(T&U)|nil" -> U(<<I(<<tT, tU>>), tNil>>)
      [] x = "nil|(T&U)" -> U(<<tNil, I(<<tT, tU>>)>>)
      [] x = "(()->T)|nil" -> U(<<F("none"), tNil>>)
      [] x = "{T}|nil" -> U(<<Tbl("array"), tNil>>)
      [] x = "T|(T&U)" -> U(<<tT, I(<<tT, tU>>)>>)
      [] x = "(T&U)|U|T" -> U(<<I(<<tT, tU>>), tU, tT>>)
      [] x = "(()->T)|U" -> U(<<F("none"), tU>>)
      [] x = "T&U" -> I(<<tT, tU>>)
      [] x = "T&(T|U)" -> I(<<tT, U(<<tT, tU>>)>>)
      [] x = "T&(()->T)" -> I(<<tT, F("none")>>)
      [] x = "T&U&T" -> I(<<tT, tU, tT>>)
      [] x = "(T|nil)&U" -> I(<<U(<<tT, tNil>>), tU>>)
      [] x = "{T}" -> Tbl("array")
      [] x = "{read T}" -> Tbl("readarray")
      [] x = "{[number]:T}" -> Tbl("indexer")
      [] x = "{write [T]:T}" -> Tbl("writeindexer")
      [] x = "{read a:T,write b:T,c:T}" -> Tbl("props")
      [] x = "()->T" -> F("none")
      [] x = "(a:T,b:T)->T" -> F("named")
      [] x = "(T,b:T)->T" -> F("second")
      [] x = "(a:T,T)->T" -> F("first")

\* the number constants of the number scenarios: a tree built by hand can
\* hold any of them, a parsed one those that are not negative
NumberNames ==
    {"zero", "negzero", "seven", "negseven", "half", "neghalf", "intmax", "pow31",
     "intmin", "belowmin", "abovemax", "inf", "neginf", "nan"}

NumberValue(x) ==
    CASE x = "zero" -> Double("finite", FALSE, 0, 0, FALSE)
      [] x = "negzero" -> Double("finite", TRUE, 0, 0, FALSE)
      [] x = "seven" -> Double("finite", FALSE, 0, 7, FALSE)
      [] x = "negseven" -> Double("finite", TRUE, 0, 7, FALSE)
      [] x = "half" -> Double("finite", FALSE, 0, 0, TRUE)
      [] x = "neghalf" -> Double("finite", TRUE, 0, 0, TRUE)
      [] x = "intmax" -> Double("finite", FALSE, 32767, Half16 - 1, FALSE)
      [] x = "abovemax" -> Double("finite", FALSE, 32767, Half16 - 1, TRUE)
      [] x = "pow31" -> Double("finite", FALSE, 32768, 0, FALSE)
      [] x = "intmin" -> Double("finite", TRUE, 32768, 0, FALSE)
      [] x = "belowmin" -> Double("finite", TRUE, 32768, 0, TRUE)
      [] x = "inf" -> Double("inf", FALSE, 0, 0, FALSE)
      [] x = "neginf" -> Double("inf", TRUE, 0, 0, FALSE)
      [] x = "nan" -> Double("nan", FALSE, 0, 0, FALSE)

\* the lexeme recorded for the constant
NumberRaw(x) ==
    CASE x = "zero" -> <<"0", ".", "0">>
      [] x = "seven" -> <<"0", "x", "7">>
      [] x = "half" -> <<".", "5">>
      [] x = "intmax" -> <<"0", "x", "7", "F", "F", "F", "F", "F", "F", "F">>
      [] x = "pow31" -> <<"2", "_", "1", "4", "7", "4", "8", "3", "6", "4", "8">>
      [] x = "inf" -> <<"1", "e", "9", "9", "9">>
      [] OTHER -> <<"0", "e", "0">>

\* the interpolated strings: the number of holes by name, the fragments by
\* kind (empty, letters, or a brace that needs its escape), the expressions
HoleCount == [zero |-> 0, one |-> 1, two |-> 2]
Fragment(kind, i) ==
    CASE kind = "" -> <<>>
      [] kind = "x" -> <<<<"x">>, <<"y">>, <<"z">>>>[i]
      [] kind = "{" -> <<"{">>
HoleName(i) == <<<<"a">>, <<"b">>>>[i]

\* the text of the string from fragment i on, as the source spells it
RECURSIVE InterpTail(_, _, _)
InterpTail(kind, n, i) ==
    escape(Fragment(kind, i), TRUE)
    \o (IF i <= n THEN <<"{">> \o HoleName(i) \o <<"}">> \o InterpTail(kind, n, i + 1)
        ELSE <<>>)
InterpText(kind, n) == <<BT>> \o InterpTail(kind, n, 1) \o <<BT>>

\* the column of hole i within the string
HoleColumn(kind, n, i) == Len(InterpText(kind, n)) - Len(InterpTail(kind, n, i + 1)) - 3

\* repeat until c with an empty body: until on the line of repeat, or on the
\* next line before c or before (c)
RepeatLex(variant, g1, g2) ==
    <<Lex(kwRepeat, 0)>>
    \o (CASE variant = "same" -> <<Lex(kwUntil, 1 + g1), Lex(<<"c">>, 1 + g2)>>
          [] variant = "next" -> <<LexNL(kwUntil, g1), Lex(<<"c">>, 1 + g2)>>
          [] variant = "paren" ->
                <<LexNL(kwUntil, g1), Lex(<<"(">>, g2), Lex(<<"c">>, 0), Lex(<<")">>, 0)>>)

\* trees built by a client of transpile(block, cst), with no lexical detail:
\* every location is the default one
BuiltNames == {"group", "semicolon", "function", "block", "local", "declare"}

\* the if scenarios: the number of conditions of the chain, by name
ChainLength == [one |-> 1, two |-> 2, three |-> 3]

\* if c then (elseif c then)* (else)? end, all bodies empty
IfLex(k, hasElse, g1, g2) ==
    Flatten([j \in 1..k |->
                <<Lex(IF j = 1 THEN kwIf ELSE kwElseif, IF j = 1 THEN 0 ELSE 1 + g2),
                  Lex(<<"c">>, 1), Lex(kwThen, 1 + g1)>>])
    \o (IF hasElse THEN <<Lex(kwElse, 1)>> ELSE <<>>)
    \o <<Lex(kwEnd, 1 + g2)>>

\* the empty block between lexemes i and i + 1
EmptyBlock(id, lex, i) ==
    [kind |-> "StatBlock", id |-> id, hasSemicolon |-> FALSE, body |-> <<>>,
     location |-> Location(EndOf(lex, i), PosOf(lex, i + 1))]

\* link j of the chain: it starts at its if or elseif and ends with the end
RECURSIVE IfNode(_, _, _, _)
IfNode(lex, j, k, hasElse) ==
    LET i == 3 * (j - 1) + 1
    IN  [kind |-> "StatIf", id |-> 10 * j, hasSemicolon |-> FALSE,
         location |-> Span(lex, i, Len(lex)),
         condition |-> Global(10 * j + 1, <<"c">>, LocOf(lex, i + 1)),
         thenLocation |-> <<LocOf(lex, i + 2)>>,
         thenbody |-> EmptyBlock(10 * j + 2, lex, i + 2),
         elseLocation |-> IF j < k \/ hasElse THEN <<LocOf(lex, i + 3)>> ELSE <<>>,
         elsebody |-> IF j < k THEN <<IfNode(lex, j + 1, k, hasElse)>>
                      ELSE IF hasElse THEN <<EmptyBlock(10 * j + 3, lex, i + 3)>>
                      ELSE <<>>]

Scenario(family, left, op, right, g1, g2, flag) ==
    [family |-> family, left |-> left, op |-> op, right |-> right,
     g1 |-> g1, g2 |-> g2, flag |-> flag]

Gaps == 0..MaxGap

\* AstExprBinary::Op
BinaryOps ==
    {"Add", "Sub", "Mul", "Div", "FloorDiv", "Mod", "Pow", "Concat", "CompareNe", "CompareEq",
     "CompareLt", "CompareLe", "CompareGt", "CompareGe", "And", "Or"}

\* the items of the table scenarios: kind and separator of each item
TableItem(kind, separator) == [kind |-> kind, separator |-> separator]

TableShape ==
    [empty |-> <<>>,
     list |-> <<TableItem("List", <<"Comma">>), TableItem("List", <<>>)>>,
     trailing |-> <<TableItem("List", <<"Comma">>), TableItem("List", <<"Comma">>)>>,
     semicolon |-> <<TableItem("List", <<"Semicolon">>), TableItem("List", <<>>)>>,
     record |-> <<TableItem("Record", <<>>)>>,
     general |-> <<TableItem("General", <<"Semicolon">>)>>]

\* the number of lexemes of a table item before its value
KeyWidth(item) ==
    CASE item.kind = "List" -> 0
      [] item.kind = "Record" -> 2
      [] item.kind = "General" -> 4

ItemWidth(item) == KeyWidth(item) + 1 + Len(item.separator)

\* the index of the first lexeme of item i of return { ... }
RECURSIVE ItemStart(_, _)
ItemStart(items, i) == IF i = 1 THEN 3 ELSE ItemStart(items, i - 1) + ItemWidth(items[i - 1])

ItemLex(item, i, g1, g2) ==
    (CASE item.kind = "List" -> <<Lex(HoleName(i), g1)>>
       [] item.kind = "Record" ->
            <<Lex(<<"k">>, g1), Lex(<<"=">>, 1), Lex(HoleName(i), 1)>>
       [] item.kind = "General" ->
            <<Lex(<<"[">>, g1), Lex(<<"k">>, 0), Lex(<<"]">>, 0), Lex(<<"=">>, 1),
              Lex(HoleName(i), 1)>>)
    \o (CASE item.separator = <<"Comma">> -> <<Lex(<<",">>, g2)>>
          [] item.separator = <<"Semicolon">> -> <<Lex(<<";">>, g2)>>
          [] OTHER -> <<>>)

TableLiteralLex(items, g1, g2) ==
    <<Lex(kwReturn, 0), Lex(<<"{">>, 1)>>
    \o Flatten([i \in 1..Len(items) |-> ItemLex(items[i], i, g1, g2)])
    \o <<Lex(<<"}">>, g1)>>

\* AstExprTable::Item of item i
TableItemNode(items, lex, i) ==
    LET item == items[i]
        j == ItemStart(items, i)
        v == j + KeyWidth(item)
    IN  [kind |-> item.kind,
         key |-> CASE item.kind = "List" -> <<>>
                   [] item.kind = "Record" ->
                        [kind |-> "ExprConstantString", id |-> 2 * i + 1,
                         location |-> LocOf(lex, j), value |-> <<"k">>]
                   [] item.kind = "General" -> Global(2 * i + 1, <<"k">>, LocOf(lex, j + 1)),
         value |-> Global(2 * i + 2, HoleName(i), LocOf(lex, v))]

\* CstExprTable::Item of item i
TableItemCst(items, lex, i) ==
    LET item == items[i]
        j == ItemStart(items, i)
        v == j + KeyWidth(item)
    IN  [indexerOpenLocation |-> IF item.kind = "General" THEN <<LocOf(lex, j)>> ELSE <<>>,
         indexerCloseLocation |-> IF item.kind = "General" THEN <<LocOf(lex, j + 2)>> ELSE <<>>,
         equalsLocation |-> IF item.kind = "List" THEN <<>> ELSE <<LocOf(lex, v - 1)>>,
         separator |-> item.separator,
         separatorLocation |-> IF item.separator # <<>> THEN <<LocOf(lex, v + 1)>> ELSE <<>>]

Scenarios ==
    {Scenario("local", "", "", "", g1, g2, flag) : g1 \in Gaps, g2 \in Gaps, flag \in BOOLEAN}
    \cup {Scenario("binary", l, op, r, g1, g2, FALSE) :
            l \in {"a", "1"}, op \in {"And", "Sub", "Concat"},
            r \in {"b", "(b)", "-b", "2"}, g1 \in Gaps, g2 \in Gaps}
    \cup {Scenario("binary", "a", op, "b", g1, g2, FALSE) :
            op \in BinaryOps, g1 \in Gaps, g2 \in Gaps}
    \cup {Scenario("assert", "", "", "", g1, g2, FALSE) : g1 \in Gaps, g2 \in Gaps}
    \cup {Scenario("call", "", op, "", g1, 0, FALSE) :
            op \in {"none", "paren", "triple", "single", "raw"}, g1 \in Gaps}
    \cup {Scenario("function", "", "", r, g1, 0, flag) :
            r \in {"", ";"}, g1 \in Gaps, flag \in BOOLEAN}
    \cup {Scenario("alias", "", "", r, g1, g2, flag) :
            r \in {"", ";"}, g1 \in Gaps, g2 \in Gaps, flag \in BOOLEAN}
    \cup {Scenario("string", "", op, "", g1, 0, FALSE) : op \in {"quote", "plain"}, g1 \in Gaps}
    \cup {Scenario("number", x, "", "", 1, 0, FALSE) : x \in NumberNames}
    \cup {Scenario("type", x, "", "", 1, 0, FALSE) : x \in TypeNames}
    \cup {Scenario("interp", "", n, kind, g1, 0, FALSE) :
            n \in DOMAIN HoleCount, kind \in {"", "x", "{"}, g1 \in Gaps}
    \cup {Scenario("repeat", "", v, "", g1, g2, FALSE) :
            v \in {"same", "next", "paren"}, g1 \in Gaps, g2 \in Gaps}
    \cup {Scenario("built", "", x, "", 0, 0, FALSE) : x \in BuiltNames}
    \cup {Scenario("table", "", x, "", g1, g2, FALSE) :
            x \in DOMAIN TableShape, g1 \in Gaps, g2 \in Gaps}
    \cup {Scenario("if", "", k, "", g1, g2, flag) :
            k \in DOMAIN ChainLength, g1 \in Gaps, g2 \in Gaps, flag \in BOOLEAN}

\* the value of the string constant of the string scenarios
stringValue(sc) == IF sc.op = "quote" THEN <<"i", "t", SQ, "s">> ELSE <<"a", "b">>

operandLex(x, gap) ==
    CASE x = "(b)" -> <<Lex(<<"(">>, gap), Lex(<<"b">>, 0), Lex(<<")">>, 0)>>
      [] x = "-b" -> <<Lex(<<"-">>, gap), Lex(<<"b">>, 0)>>
      [] OTHER -> <<Lex(<<x>>, gap)>>

\* the lexemes of a scenario's source
Lexemes(sc) ==
    CASE sc.family = "local" ->
            <<Lex(kwLocal, 0), Lex(<<"x">>, 1)>>
            \o (IF sc.flag THEN <<Lex(<<":">>, sc.g1), Lex(<<"T">>, sc.g2)>> ELSE <<>>)
            \o <<Lex(<<"=">>, 1), Lex(<<"1">>, 1)>>
      [] sc.family = "binary" ->
            <<Lex(kwReturn, 0), Lex(<<sc.left>>, 1), Lex(opToString(sc.op), sc.g1)>>
            \o operandLex(sc.right, sc.g2)
      [] sc.family = "assert" ->
            <<Lex(kwReturn, 0), Lex(<<"a">>, 1), Lex(<<":", ":">>, sc.g1), Lex(<<"T">>, sc.g2)>>
      [] sc.family = "call" ->
            (CASE sc.op = "none" -> <<Lex(<<"f">>, 0), Lex(<<"(">>, sc.g1), Lex(<<")">>, 0)>>
               [] sc.op = "paren" ->
                    <<Lex(<<"f">>, 0), Lex(<<"(">>, sc.g1), Lex(<<"a">>, 0), Lex(<<",">>, 0),
                      Lex(<<"b">>, 1), Lex(<<")">>, 0)>>
               [] sc.op = "triple" ->
                    <<Lex(<<"f">>, 0), Lex(<<"(">>, sc.g1), Lex(<<"a">>, 0), Lex(<<",">>, 0),
                      Lex(<<"b">>, 1), Lex(<<",">>, sc.g1), Lex(<<"c">>, 1), Lex(<<")">>, 0)>>
               [] sc.op = "single" -> <<Lex(<<"f">>, 0), Lex(<<SQ, "s", SQ>>, sc.g1)>>
               [] sc.op = "raw" ->
                    <<Lex(<<"f">>, 0), Lex(<<"[", "=", "[", "s", "]", "=", "]">>, sc.g1)>>)
      [] sc.family = "function" ->
            <<Lex(kwFunction, 0), Lex(<<"f">>, 1), Lex(<<"(">>, 0), Lex(<<"a">>, 0),
              Lex(<<":">>, sc.g1), Lex(<<"T">>, 1), Lex(<<",">>, 0), Lex(symDots, 1)>>
            \o (IF sc.flag THEN <<Lex(<<":">>, 0), Lex(<<"T">>, 1)>> ELSE <<>>)
            \o <<Lex(<<")">>, 0), Lex(<<":">>, 0), Lex(<<"T">>, 1), Lex(kwEnd, 1)>>
            \o (IF sc.right = ";" THEN <<Lex(<<";">>, 0)>> ELSE <<>>)
      [] sc.family = "alias" ->
            (IF sc.flag THEN <<Lex(kwExport, sc.g1), Lex(kwType, 1)>> ELSE <<Lex(kwType, sc.g1)>>)
            \o <<Lex(<<"M">>, 1), Lex(<<"<">>, 0), Lex(<<"T">>, 0), Lex(<<">">>, 0),
                 Lex(<<"=">>, 1), Lex(<<"T">>, 1), Lex(<<"|">>, 1), Lex(kwNil, 1)>>
            \o (IF sc.right = ";" THEN <<Lex(<<";">>, sc.g2)>> ELSE <<>>)
      [] sc.family = "string" ->
            <<Lex(kwLocal, 0), Lex(<<"s">>, 1), Lex(<<"=">>, 1),
              Lex(<<DQ>> \o stringValue(sc) \o <<DQ>>, sc.g1)>>
      [] sc.family = "number" ->
            <<Lex(kwReturn, 0), Lex(NumberRaw(sc.left), sc.g1)>>
      [] sc.family = "type" ->
            <<Lex(kwType, 0), Lex(<<"M">>, 1), Lex(<<"=">>, 1)>>
            \o ShapeLex(TypeShape(sc.left), sc.g1)
      [] sc.family = "if" -> IfLex(ChainLength[sc.op], sc.flag, sc.g1, sc.g2)
      [] sc.family = "repeat" -> RepeatLex(sc.op, sc.g1, sc.g2)
      [] sc.family = "table" -> TableLiteralLex(TableShape[sc.op], sc.g1, sc.g2)
      [] sc.family = "interp" ->
            <<Lex(kwReturn, 0), Lex(InterpText(sc.right, HoleCount[sc.op]), sc.g1)>>
      [] sc.family = "bad" ->
            <<Lex(kwLocal, 0), Lex(<<"1", "x">>, 1), Lex(<<"=">>, 1), Lex(<<"2">>, 1)>>
      [] OTHER -> <<>>

Stat(kind, id, loc, hasSemicolon, fields) ==
    [kind |-> kind, id |-> id, location |-> loc, hasSemicolon |-> hasSemicolon] @@ fields

\* the statement of a built tree
BuiltStat(x) ==
    CASE x = "group" ->
            Stat("StatReturn", 1, NoLocation, FALSE,
                [list |-> <<[kind |-> "ExprGroup", id |-> 2, location |-> NoLocation,
                             expr |-> Global(3, <<"x">>, NoLocation)]>>])
      [] x = "semicolon" -> Stat("StatBreak", 1, NoLocation, TRUE, <<>>)
      [] x = "function" ->
            Stat("StatFunction", 1, NoLocation, FALSE,
                [name |-> Global(2, <<"f">>, NoLocation),
                 func |-> [kind |-> "ExprFunction", id |-> 3, location |-> NoLocation,
                           generics |-> <<>>, genericPacks |-> <<>>,
                           argLocation |-> <<NoLocation>>, args |-> <<>>,
                           vararg |-> FALSE, varargLocation |-> NoLocation,
                           varargAnnotation |-> <<>>, returnAnnotation |-> <<>>,
                           body |-> [kind |-> "StatBlock", id |-> 4, hasSemicolon |-> FALSE,
                                     body |-> <<>>, location |-> NoLocation]]])
      [] x = "block" -> Stat("StatBlock", 1, NoLocation, FALSE, [body |-> <<>>])
      [] x \in {"local", "declare"} ->
            Stat("StatLocal", 1, NoLocation, FALSE,
                [vars |-> <<[kind |-> "Local", id |-> 2, name |-> <<"x">>,
                             location |-> NoLocation, annotation |-> <<>>]>>,
                 equalsSignLocation |-> <<>>,
                 values |-> IF x = "local" THEN <<Number(3, Dbl(1), NoLocation)>> ELSE <<>>])

\* the right operand of the binary scenarios, whose first lexeme is lex[i]
operandExpr(x, lex, i) ==
    CASE x = "(b)" ->
            [kind |-> "ExprGroup", id |-> 4, location |-> Span(lex, i, i + 2),
             expr |-> Global(5, <<"b">>, LocOf(lex, i + 1))]
      [] x = "-b" ->
            [kind |-> "ExprUnary", id |-> 4, location |-> Span(lex, i, i + 1), op |-> "Minus",
             expr |-> Global(5, <<"b">>, LocOf(lex, i + 1))]
      [] x = "2" -> Number(4, Dbl(2), LocOf(lex, i))
      [] OTHER -> Global(4, <<x>>, LocOf(lex, i))

\* the statement of a scenario
ParseStat(sc) ==
    LET lex == Lexemes(sc)
        n == Len(lex)
    IN
    CASE sc.family = "local" ->
            LET k == IF sc.flag THEN 2 ELSE 0
            IN  Stat("StatLocal", 1, Span(lex, 1, n), FALSE,
                    [vars |-> <<[kind |-> "Local", id |-> 2, name |-> <<"x">>,
                                 location |-> LocOf(lex, 2),
                                 annotation |-> IF sc.flag
                                                THEN <<TypeRef(6, <<"T">>, LocOf(lex, 4))>>
                                                ELSE <<>>]>>,
                     equalsSignLocation |-> <<LocOf(lex, 3 + k)>>,
                     values |-> <<Number(3, Dbl(1), LocOf(lex, 4 + k))>>])
      [] sc.family = "string" ->
            Stat("StatLocal", 1, Span(lex, 1, n), FALSE,
                [vars |-> <<[kind |-> "Local", id |-> 2, name |-> <<"s">>,
                             location |-> LocOf(lex, 2), annotation |-> <<>>]>>,
                 equalsSignLocation |-> <<LocOf(lex, 3)>>,
                 values |-> <<[kind |-> "ExprConstantString", id |-> 3,
                               location |-> LocOf(lex, 4), value |-> stringValue(sc)]>>])
      [] sc.family = "type" ->
            Stat("StatTypeAlias", 1, Span(lex, 1, n), FALSE,
                [exported |-> FALSE, name |-> <<"M">>, nameLocation |-> LocOf(lex, 2),
                 generics |-> <<>>, genericPacks |-> <<>>,
                 type |-> ShapeNode(TypeShape(sc.left), lex, 4, 0)])
      [] sc.family = "if" -> IfNode(lex, 1, ChainLength[sc.op], sc.flag)
      [] sc.family = "built" -> BuiltStat(sc.op)
      [] sc.family = "table" ->
            Stat("StatReturn", 1, Span(lex, 1, n), FALSE,
                [list |-> <<[kind |-> "ExprTable", id |-> 2, location |-> Span(lex, 2, n),
                             items |-> [i \in 1..Len(TableShape[sc.op]) |->
                                          TableItemNode(TableShape[sc.op], lex, i)]]>>])
      [] sc.family = "repeat" ->
            Stat("StatRepeat", 1, Span(lex, 1, n), FALSE,
                [body |-> EmptyBlock(2, lex, 1),
                 condition |->
                    IF sc.op = "paren"
                    THEN [kind |-> "ExprGroup", id |-> 3, location |-> Span(lex, 3, 5),
                          expr |-> Global(4, <<"c">>, LocOf(lex, 4))]
                    ELSE Global(3, <<"c">>, LocOf(lex, 3))])
      [] sc.family = "interp" ->
            LET holes == HoleCount[sc.op]
                at(i) == StartCol(lex, 2) + HoleColumn(sc.right, holes, i)
            IN  Stat("StatReturn", 1, Span(lex, 1, n), FALSE,
                    [list |-> <<[kind |-> "ExprInterpString", id |-> 2, location |-> LocOf(lex, 2),
                                 strings |-> [i \in 1..(holes + 1) |-> Fragment(sc.right, i)],
                                 expressions |->
                                    [i \in 1..holes |->
                                        Global(2 + i, HoleName(i),
                                               Location(Position(0, at(i)),
                                                        Position(0, at(i) + 1)))]]>>])
      [] sc.family = "number" ->
            Stat("StatReturn", 1, Span(lex, 1, n), FALSE,
                [list |-> <<Number(2, NumberValue(sc.left), LocOf(lex, 2))>>])
      [] sc.family = "binary" ->
            Stat("StatReturn", 1, Span(lex, 1, n), FALSE,
                [list |-> <<[kind |-> "ExprBinary", id |-> 2, location |-> Span(lex, 2, n),
                             op |-> sc.op,
                             left |-> IF sc.left = "1" THEN Number(3, Dbl(1), LocOf(lex, 2))
                                      ELSE Global(3, <<sc.left>>, LocOf(lex, 2)),
                             right |-> operandExpr(sc.right, lex, 4)]>>])
      [] sc.family = "assert" ->
            Stat("StatReturn", 1, Span(lex, 1, n), FALSE,
                [list |-> <<[kind |-> "ExprTypeAssertion", id |-> 2, location |-> Span(lex, 2, n),
                             expr |-> Global(3, <<"a">>, LocOf(lex, 2)),
                             annotation |-> TypeRef(4, <<"T">>, LocOf(lex, 4))]>>])
      [] sc.family = "call" ->
            Stat("StatExpr", 1, Span(lex, 1, n), FALSE,
                [expr |-> [kind |-> "ExprCall", id |-> 2, location |-> Span(lex, 1, n),
                           func |-> Global(3, <<"f">>, LocOf(lex, 1)),
                           args |-> IF sc.op = "none" THEN <<>>
                                    ELSE IF sc.op = "paren"
                                    THEN <<Global(4, <<"a">>, LocOf(lex, 3)),
                                           Global(5, <<"b">>, LocOf(lex, 5))>>
                                    ELSE IF sc.op = "triple"
                                    THEN <<Global(4, <<"a">>, LocOf(lex, 3)),
                                           Global(5, <<"b">>, LocOf(lex, 5)),
                                           Global(6, <<"c">>, LocOf(lex, 7))>>
                                    ELSE <<[kind |-> "ExprConstantString", id |-> 4,
                                            location |-> LocOf(lex, 2), value |-> <<"s">>]>>]])
      [] sc.family = "function" ->
            LET k == IF sc.flag THEN 2 ELSE 0
                last == IF sc.right = ";" THEN n - 1 ELSE n
            IN  Stat("StatFunction", 1, Span(lex, 1, n), sc.right = ";",
                    [name |-> Global(2, <<"f">>, LocOf(lex, 2)),
                     func |-> [kind |-> "ExprFunction", id |-> 3, location |-> Span(lex, 1, last),
                               generics |-> <<>>, genericPacks |-> <<>>,
                               argLocation |-> <<Span(lex, 3, 9 + k)>>,
                               args |-> <<[kind |-> "Local", id |-> 4, name |-> <<"a">>,
                                           location |-> LocOf(lex, 4),
                                           annotation |-> <<TypeRef(5, <<"T">>, LocOf(lex, 6))>>]>>,
                               vararg |-> TRUE,
                               varargLocation |-> LocOf(lex, 8),
                               varargAnnotation |->
                                   IF sc.flag
                                   THEN <<[kind |-> "TypePackVariadic", id |-> 6,
                                           location |-> LocOf(lex, 10),
                                           variadicType |-> TypeRef(7, <<"T">>, LocOf(lex, 10))]>>
                                   ELSE <<>>,
                               returnAnnotation |->
                                   <<[types |-> <<TypeRef(8, <<"T">>, LocOf(lex, 11 + k))>>,
                                      tailType |-> <<>>]>>,
                               body |-> [kind |-> "StatBlock", id |-> 9, hasSemicolon |-> FALSE,
                                         body |-> <<>>,
                                         location |-> Location(Position(0, EndCol(lex, 11 + k)),
                                                               PosOf(lex, last))]]])
      [] sc.family = "alias" ->
            LET k == IF sc.flag THEN 1 ELSE 0
                last == IF sc.right = ";" THEN n - 1 ELSE n
            IN  Stat("StatTypeAlias", 1, Span(lex, 1, n), sc.right = ";",
                    [exported |-> sc.flag, name |-> <<"M">>, nameLocation |-> LocOf(lex, 2 + k),
                     generics |-> <<[name |-> <<"T">>, location |-> LocOf(lex, 4 + k),
                                     defaultValue |-> <<>>]>>,
                     genericPacks |-> <<>>,
                     type |-> [kind |-> "TypeUnion", id |-> 2, location |-> Span(lex, 7 + k, last),
                               types |-> <<TypeRef(3, <<"T">>, LocOf(lex, 7 + k)),
                                           TypeRef(4, kwNil, LocOf(lex, 9 + k))>>]])

\* the root block: from the start of the source to the end of its last lexeme
ParseRoot(sc) ==
    [kind |-> "StatBlock", id |-> 0, hasSemicolon |-> FALSE,
     location |-> Location(Position(0, 0),
                           IF Lexemes(sc) = <<>> THEN Position(0, 0)
                           ELSE EndOf(Lexemes(sc), Len(Lexemes(sc)))),
     body |-> <<ParseStat(sc)>>]

\* the CST records the parser stores for the scenario, by node id
ParseCst(sc) ==
    LET lex == Lexemes(sc)
    IN
    CASE sc.family = "local" ->
            (1 :> [kind |-> "StatLocal", varsCommaPositions |-> <<>>, valuesCommaPositions |-> <<>>])
            @@ (3 :> [kind |-> "ExprConstantNumber", value |-> <<"1">>])
      [] sc.family = "string" ->
            (1 :> [kind |-> "StatLocal", varsCommaPositions |-> <<>>, valuesCommaPositions |-> <<>>])
            @@ (3 :> [kind |-> "ExprConstantString", sourceString |-> stringValue(sc),
                      quoteStyle |-> QuotedDouble, blockDepth |-> 0])
      [] sc.family = "type" ->
            (1 :> [kind |-> "StatTypeAlias", typeKeywordPosition |-> PosOf(lex, 1),
                   genericsOpenPosition |-> NoPos, genericsCommaPositions |-> <<>>,
                   genericsClosePosition |-> NoPos, equalsPosition |-> PosOf(lex, 3)])
            @@ ShapeCst(TypeShape(sc.left), lex, 4, 0)
      [] sc.family = "if" -> <<>>
      [] sc.family = "built" -> <<>>
      [] sc.family = "table" ->
            (1 :> [kind |-> "StatReturn", commaPositions |-> <<>>])
            @@ (2 :> [kind |-> "ExprTable",
                      items |-> [i \in 1..Len(TableShape[sc.op]) |->
                                   TableItemCst(TableShape[sc.op], lex, i)]])
      [] sc.family = "repeat" -> 1 :> [kind |-> "StatRepeat", untilPosition |-> PosOf(lex, 2)]
      [] sc.family = "interp" -> 1 :> [kind |-> "StatReturn", commaPositions |-> <<>>]
      [] sc.family = "number" ->
            (1 :> [kind |-> "StatReturn", commaPositions |-> <<>>])
            @@ (2 :> [kind |-> "ExprConstantNumber", value |-> NumberRaw(sc.left)])
      [] sc.family = "binary" ->
            (1 :> [kind |-> "StatReturn", commaPositions |-> <<>>])
            @@ (2 :> [kind |-> "ExprOp", opPosition |-> PosOf(lex, 3)])
            @@ (IF sc.left = "1" THEN 3 :> [kind |-> "ExprConstantNumber", value |-> <<"1">>]
                ELSE <<>>)
            @@ (CASE sc.right = "2" -> 4 :> [kind |-> "ExprConstantNumber", value |-> <<"2">>]
                  [] sc.right = "-b" -> 4 :> [kind |-> "ExprOp", opPosition |-> PosOf(lex, 4)]
                  [] OTHER -> <<>>)
      [] sc.family = "assert" ->
            (1 :> [kind |-> "StatReturn", commaPositions |-> <<>>])
            @@ (2 :> [kind |-> "ExprTypeAssertion", opPosition |-> PosOf(lex, 3)])
      [] sc.family = "call" ->
            IF sc.op = "none"
            THEN 2 :> [kind |-> "ExprCall", openParens |-> <<PosOf(lex, 2)>>,
                       closeParens |-> <<PosOf(lex, 3)>>, commaPositions |-> <<>>]
            ELSE IF sc.op = "paren"
            THEN 2 :> [kind |-> "ExprCall", openParens |-> <<PosOf(lex, 2)>>,
                       closeParens |-> <<PosOf(lex, 6)>>, commaPositions |-> <<PosOf(lex, 4)>>]
            ELSE IF sc.op = "triple"
            THEN 2 :> [kind |-> "ExprCall", openParens |-> <<PosOf(lex, 2)>>,
                       closeParens |-> <<PosOf(lex, 8)>>,
                       commaPositions |-> <<PosOf(lex, 4), PosOf(lex, 6)>>]
            ELSE (2 :> [kind |-> "ExprCall", openParens |-> <<>>, closeParens |-> <<>>,
                        commaPositions |-> <<>>])
                 @@ (4 :> [kind |-> "ExprConstantString", sourceString |-> <<"s">>,
                           quoteStyle |-> IF sc.op = "raw" THEN QuotedRaw ELSE QuotedSingle,
                           blockDepth |-> IF sc.op = "raw" THEN 1 ELSE 0])
      [] sc.family = "function" ->
            3 :> [kind |-> "ExprFunction", argsCommaPositions |-> <<PosOf(lex, 7)>>,
                  genericsCommaPositions |-> <<>>, openGenericsPosition |-> NoPos,
                  closeGenericsPosition |-> NoPos,
                  returnSpecifierPosition |-> PosOf(lex, IF sc.flag THEN 12 ELSE 10)]
      [] sc.family = "alias" ->
            LET k == IF sc.flag THEN 1 ELSE 0
            IN  1 :> [kind |-> "StatTypeAlias", typeKeywordPosition |-> PosOf(lex, 1 + k),
                      genericsOpenPosition |-> PosOf(lex, 3 + k), genericsCommaPositions |-> <<>>,
                      genericsClosePosition |-> PosOf(lex, 5 + k),
                      equalsPosition |-> PosOf(lex, 6 + k)]

(***************************************************************************)
(* transpile(source, options, withTypes)                                   *)
(***************************************************************************)
ParseError(loc, message) == [location |-> loc, message |-> message]

Error1 == ParseError(Location(Position(0, 6), Position(0, 8)), "Expected identifier when parsing variable name, got '1x'")
Error2 == ParseError(Location(Position(0, 9), Position(0, 10)), "Malformed number")

ErrorLists == {<<Error1>>, <<Error1, Error2>>, <<Error2, Error1>>}

InternalError == "Internal error: Parser yielded empty parse tree"

Input(source, storeCstData, withTypes, errors, hasRoot) ==
    [source |-> source, storeCstData |-> storeCstData, withTypes |-> withTypes,
     errors |-> errors, hasRoot |-> hasRoot]

Inputs ==
    {Input(sc, cst, types, <<>>, TRUE) :
        sc \in {x \in Scenarios : SourceOK(Lexemes(x))}, cst \in BOOLEAN, types \in BOOLEAN}
    \cup {Input(Scenario("bad", "", "", "", 0, 0, FALSE), cst, types, errs, root) :
            cst \in BOOLEAN, types \in BOOLEAN, errs \in ErrorLists, root \in BOOLEAN}
    \cup {Input(Scenario("empty", "", "", "", 0, 0, FALSE), cst, types, <<>>, FALSE) :
            cst \in BOOLEAN, types \in BOOLEAN}

NoInput == Input(Scenario("none", "", "", "", 0, 0, FALSE), FALSE, FALSE, <<>>, FALSE)

TranspileResult(code, errorLocation, parseError) ==
    [code |-> code, errorLocation |-> errorLocation, parseError |-> parseError]

NoResult == TranspileResult(<<>>, NoLocation, "")

Init ==
    /\ writer = NewWriter(NoPos)
    /\ calls = <<>>
    /\ emitted = <<>>
    /\ input \in Inputs
    /\ pc = "start"
    /\ result = NoResult

\* transpile reporting the last error of the list
ParseFailedLast ==
    /\ pc = "start"
    /\ input.errors # <<>>
    /\ result' = TranspileResult(<<>>, input.errors[Len(input.errors)].location,
                                 input.errors[Len(input.errors)].message)
    /\ pc' = "done"
    /\ UNCHANGED <<writer, calls, emitted, input>>

\* the parse reported errors: the first one is returned
ParseFailed ==
    /\ pc = "start"
    /\ input.errors # <<>>
    /\ result' = TranspileResult(<<>>, Head(input.errors).location, Head(input.errors).message)
    /\ pc' = "done"
    /\ UNCHANGED <<writer, calls, emitted, input>>

\* LUAU_ASSERT(parseResult.root) in a build with assertions
EmptyTreeAssert ==
    /\ pc = "start"
    /\ input.errors = <<>>
    /\ ~input.hasRoot
    /\ pc' = "aborted"
    /\ UNCHANGED <<writer, calls, emitted, input, result>>

\* the same in a build without assertions
EmptyTreeResult ==
    /\ pc = "start"
    /\ input.errors = <<>>
    /\ ~input.hasRoot
    /\ result' = TranspileResult(<<>>, NoLocation, InternalError)
    /\ pc' = "done"
    /\ UNCHANGED <<writer, calls, emitted, input>>

\* the printer read an empty optional: the run ends with no result
BadOptional ==
    /\ pc = "printing"
    /\ Pending("badOptional")
    /\ pc' = "aborted"
    /\ calls' = <<>>
    /\ UNCHANGED <<writer, emitted, input, result>>

\* the printer read the Location of an empty optional, in a build whose
\* library checks the access: the run ends with no result
AbsentLocationTrap ==
    /\ pc = "printing"
    /\ Pending("absentLocation")
    /\ pc' = "aborted"
    /\ calls' = <<>>
    /\ UNCHANGED <<writer, emitted, input, result>>

\* the same in a build that does not check: the bytes of the empty optional
\* are taken for a Location, and the printer advances to its begin
AbsentLocationRead ==
    /\ pc = "printing"
    /\ Pending("absentLocation")
    /\ \E garbage \in Positions : writer' = advance(writer, garbage)
    /\ Consume

\* the printer advances to a column that wrapped to the top: the writer
\* pads the line with that many spaces, and the run is followed no further
PadBeyond ==
    /\ pc = "printing"
    /\ Pending("advance")
    /\ PadsBeyond(writer, Head(calls).newPos)
    /\ pc' = "padding"
    /\ UNCHANGED <<writer, calls, emitted, input, result>>

\* transpile(block, cstNodeMap) or transpileWithTypes(block, cstNodeMap) starts
Visualize ==
    /\ pc = "start"
    /\ input.errors = <<>>
    /\ input.hasRoot
    /\ writer' = NewWriter(Position(0, 0))
    /\ calls' = visualizeBlock(
                    Printer(input.withTypes,
                            IF input.storeCstData THEN ParseCst(input.source) ELSE <<>>),
                    ParseRoot(input.source))
    /\ pc' = "printing"
    /\ UNCHANGED <<emitted, input, result>>

\* the printer is done: writer.str() is the result
Return ==
    /\ pc = "printing"
    /\ calls = <<>>
    /\ result' = TranspileResult(writer.ss, NoLocation, "")
    /\ pc' = "done"
    /\ UNCHANGED <<writer, calls, emitted, input>>

Next ==
    \/ ParseFailed
    \/ EmptyTreeAssert
    \/ EmptyTreeResult
    \/ Visualize
    \/ Return
    \/ BadOptional
    \/ AbsentLocationTrap
    \/ AbsentLocationRead
    \/ PadBeyond
    \/ Advance
    \/ Space
    \/ MaybeSpace
    \/ Write
    \/ Identifier
    \/ Keyword
    \/ Symbol
    \/ Literal
    \/ String
    \/ SourceString

Spec == Init /\ [][Next]_vars

Printed == pc = "done" /\ input.errors = <<>> /\ input.hasRoot

\* C1: with types and the CST records, the text returned for a source that
\* parses without error equals the source, character for character.
RoundTrip ==
    (Printed /\ input.withTypes /\ input.storeCstData)
        => result.code = SourceText(Lexemes(input.source))

\* the calls made so far that wrote a token, and were not the first to write
TokensAfterText == {i \in 1..Len(emitted) : emitted[i].to >= emitted[i].from /\ emitted[i].from > 1}

\* C3: no token starts with an identifier character right after an identifier
\* character of the text before it; this covers the operators and and or.
IdentifierAdjacency ==
    \A i \in TokensAfterText :
        ~(/\ isIdentifierChar(writer.ss[emitted[i].from - 1])
          /\ isIdentifierChar(writer.ss[emitted[i].from]))

\* C4: no token starts right after a character with which its first character
\* reads as a longer operator or another token (--, a digit and a dot, ...).
OperatorFusion ==
    \A i \in TokensAfterText :
        ~Fuses(writer.ss[emitted[i].from - 1], writer.ss[emitted[i].from])

\* the text the i-th call wrote as its token
TokenText(i) == SubSeq(writer.ss, emitted[i].from, emitted[i].to)

Openers == {<<"(">>, <<"[">>, <<"{">>, <<"<">>}
Closers == {<<")">>, <<"]">>, <<"}">>, <<">">>}

CloserOf(open) ==
    CASE open = <<"(">> -> <<")">>
      [] open = <<"[">> -> <<"]">>
      [] open = <<"{">> -> <<"}">>
      [] open = <<"<">> -> <<">">>

\* the i-th call wrote a bracket: < and > are comparison operators in the
\* sources of one binary expression, brackets of generics elsewhere
Bracket(i, set) ==
    /\ emitted[i].op = "symbol"
    /\ TokenText(i) \in set
    /\ ~(input.source.family = "binary" /\ TokenText(i) \in {<<"<">>, <<">">>})

\* the bracket symbols written by calls i.., read with the stack of openers
RECURSIVE Nested(_, _)
Nested(i, stack) ==
    IF i > Len(emitted) THEN stack = <<>>
    ELSE IF Bracket(i, Openers)
    THEN Nested(i + 1, <<TokenText(i)>> \o stack)
    ELSE IF Bracket(i, Closers)
    THEN stack # <<>> /\ CloserOf(Head(stack)) = TokenText(i) /\ Nested(i + 1, Tail(stack))
    ELSE Nested(i + 1, stack)

\* number of = signs from index i of t on
RECURSIVE EqualsRun(_, _)
EqualsRun(t, i) == IF i <= Len(t) /\ t[i] = "=" THEN 1 + EqualsRun(t, i + 1) ELSE 0

\* a long bracket [=*[ ... ]=*] whose two ends have n equals signs
LongBracket(t, n) ==
    /\ Len(t) >= 2 * n + 4
    /\ t[1] = "[" /\ EqualsRun(t, 2) = n /\ t[n + 2] = "["
    /\ t[Len(t)] = "]" /\ EqualsRun(t, Len(t) - n) = n /\ t[Len(t) - n - 1] = "]"

TypeTokens == {<<":">>, <<":", ":">>, <<"T">>, <<"|">>, <<"?">>, kwType, kwExport}

\* C6: without types, no token of an annotation, an assertion or a type alias
\* is written, and a type alias statement writes no token at all.
UntypedOmitsTypes ==
    ~input.withTypes =>
        \A i \in 1..Len(emitted) :
            emitted[i].to >= emitted[i].from
                => TokenText(i) \notin TypeTokens /\ input.source.family # "alias"

\* C7: without types, a root block holding only a type alias at (0, 0) gives
\* the empty string.
UntypedAliasIsEmpty ==
    (/\ Printed
     /\ ~input.withTypes
     /\ input.source.family = "alias"
     /\ input.source.right = ""
     /\ input.source.g1 = 0 /\ ~input.source.flag)
        => result.code = <<>>

\* C8: with a parse error the result has no text and the first error's
\* location and message, and the printer makes no call; with no error and a
\* root the result has the printed text and no error.
FirstErrorOrText ==
    /\ input.errors # <<>> =>
          /\ pc # "printing" /\ calls = <<>> /\ emitted = <<>>
          /\ pc = "done" =>
                /\ result.code = <<>>
                /\ result.errorLocation = input.errors[1].location
                /\ result.parseError = input.errors[1].message
    /\ Printed =>
          /\ result.code = writer.ss
          /\ Len(emitted) = Len(visualizeBlock(
                Printer(input.withTypes,
                        IF input.storeCstData THEN ParseCst(input.source) ELSE <<>>),
                ParseRoot(input.source)))
          /\ result.parseError = ""
          /\ result.errorLocation = NoLocation

FirstErrorOrTextWitness ==
    /\ pc = "done"
    /\ Len(input.errors) = 2
    /\ input.hasRoot
    /\ result.parseError = Error2.message

\* C9: with no error and no root the call returns, with no text and the
\* message "internal error: parser yielded empty parse tree".
EmptyTreeIsReturned ==
    (pc # "start" /\ input.errors = <<>> /\ ~input.hasRoot)
        => /\ pc = "done"
           /\ result.code = <<>>
           /\ result.parseError = "internal error: parser yielded empty parse tree"

\* the string scenario whose value holds a single quote, printed
QuoteStringPrinted == Printed /\ input.source.family = "string" /\ input.source.op = "quote"

\* the source up to the string constant
BeforeString == SourceText(SubSeq(Lexemes(input.source), 1, 3)) \o Repeat(SP, input.source.g1)

\* C11 (as stated): with no CST record the value it's is printed in single
\* quotes with the quote escaped, 'it\'s'; with a double-quote record it is
\* printed as in the source, "it's".
QuoteStringSingleQuoted ==
    QuoteStringPrinted =>
        result.code = BeforeString \o
            (IF input.storeCstData THEN <<DQ, "i", "t", SQ, "s", DQ>>
             ELSE <<SQ, "i", "t", BSL, SQ, "s", SQ>>)

\* C11 (amended): with no CST record the value it's is printed in double
\* quotes, its quote escaped, "it\'s"; with a double-quote record it is
\* printed as in the source, "it's".
QuoteStringDoubleQuoted ==
    QuoteStringPrinted =>
        result.code = BeforeString \o
            (IF input.storeCstData THEN <<DQ, "i", "t", SQ, "s", DQ>>
             ELSE <<DQ, "i", "t", BSL, SQ, "s", DQ>>)

QuoteStringDoubleQuotedWitness ==
    /\ QuoteStringPrinted
    /\ ~input.storeCstData
    /\ emitted[Len(emitted) - 1].op = "string"
    /\ writer.lastChar = DQ

\* a number scenario printed, and the token written for its constant
NumberPrinted == Printed /\ input.source.family = "number"
NumberToken == TokenText(CHOOSE i \in 1..Len(emitted) : emitted[i].op = "literal")

\* the decimal spelling of each number of the scenarios that has one
IntegerSpelling(x) ==
    CASE x = "zero" -> <<"0">>
      [] x = "seven" -> <<"7">>
      [] x = "negseven" -> <<"-", "7">>
      [] x = "intmax" -> <<"2", "1", "4", "7", "4", "8", "3", "6", "4", "7">>
      [] x = "intmin" -> <<"-", "2", "1", "4", "7", "4", "8", "3", "6", "4", "8">>
      [] OTHER -> <<>>

\* the %.17g spelling of each number of the scenarios that takes that path
FloatSpelling(x) ==
    CASE x = "negzero" -> <<"-", "0">>
      [] x = "half" -> <<"0", ".", "5">>
      [] x = "neghalf" -> <<"-", "0", ".", "5">>
      [] x = "pow31" -> <<"2", "1", "4", "7", "4", "8", "3", "6", "4", "8">>
      [] x = "abovemax" -> <<"2", "1", "4", "7", "4", "8", "3", "6", "4", "7", ".", "5">>
      [] x = "belowmin" -> <<"-", "2", "1", "4", "7", "4", "8", "3", "6", "4", "8", ".", "5">>
      [] OTHER -> <<>>

\* C12: with no CST record a finite number is printed as a decimal integer
\* exactly when it lies in the range of int, has no fraction and is not
\* negative zero, and by %.17g otherwise; with a CST record the recorded
\* lexeme is printed, whatever the value.
NumberSpelling ==
    (NumberPrinted /\ (input.storeCstData \/ NumberValue(input.source.left).class = "finite")) =>
        LET x == input.source.left
            d == NumberValue(x)
            integer == /\ x \notin {"pow31", "abovemax", "belowmin"}
                       /\ x \notin {"half", "neghalf", "abovemax", "belowmin"}
                       /\ x # "negzero"
        IN  IF input.storeCstData THEN NumberToken = NumberRaw(x)
            ELSE IF integer THEN NumberToken = IntegerSpelling(x) /\ isIntegerish(d)
            ELSE NumberToken = FloatSpelling(x) /\ ~isIntegerish(d)

NumberSpellingWitness ==
    /\ NumberPrinted
    /\ ~input.storeCstData
    /\ input.source.left = "negzero"
    /\ NumberToken = <<"-", "0">>

\* the tokens written so far, in order
Tokens ==
    LET Written(i) == emitted[i].to >= emitted[i].from
        idx == SelectSeq([i \in 1..Len(emitted) |-> i], Written)
    IN  [k \in 1..Len(idx) |-> TokenText(idx[k])]

\* a type scenario printed with types, its shape, and the tokens of its type
\* (those after type M =)
TypePrinted == Printed /\ input.source.family = "type" /\ input.withTypes
PrintedShape == TypeShape(input.source.left)
TypeTokensPrinted == SubSeq(Tokens, 4, Len(Tokens))

\* a union of two members, one of them nil, and its other member
Nullable(sh) == sh.k = "union" /\ Len(sh.types) = 2 /\ \E j \in 1..2 : sh.types[j] = tNil
NonNil(sh) == IF sh.types[1] = tNil THEN sh.types[2] ELSE sh.types[1]

Parenthesised(tokens, parens) ==
    IF parens THEN <<<<"(">>>> \o tokens \o <<<<")">>>> ELSE tokens

\* the tokens of a type as the rules of the specification give them
RECURSIVE Rendered(_)
Rendered(sh) ==
    CASE sh.k = "ref" -> <<sh.name>>
      [] sh.k = "func" -> <<<<"(">>, <<")">>, symArrow, <<"(">>, <<"T">>, <<")">>>>
      [] sh.k = "table" -> <<<<"{">>, <<"T">>, <<"}">>>>
      [] Nullable(sh) ->
            Parenthesised(Rendered(NonNil(sh)), NonNil(sh).k \in {"inter", "func"})
            \o <<<<"?">>>>
      [] OTHER ->
            Flatten([j \in 1..Len(sh.types) |->
                (IF j > 1 THEN <<IF sh.k = "union" THEN <<"|">> ELSE <<"&">>>> ELSE <<>>)
                \o Parenthesised(Rendered(sh.types[j]),
                                 \/ sh.types[j].k = "func"
                                 \/ sh.k = "union" /\ sh.types[j].k = "inter"
                                 \/ sh.k = "inter" /\ sh.types[j].k = "union")])

\* C13: a union is printed as X? exactly when it has two members and one of
\* them is the reference nil; X is the other member, in parentheses exactly
\* when it is an intersection or a function type; a union of three members
\* or more is never contracted.
NullableSugar ==
    (TypePrinted /\ PrintedShape.k = "union") =>
        IF Nullable(PrintedShape)
        THEN TypeTokensPrinted =
                Parenthesised(Rendered(NonNil(PrintedShape)),
                              NonNil(PrintedShape).k \in {"inter", "func"})
                \o <<<<"?">>>>
        ELSE \A k \in 1..Len(TypeTokensPrinted) : TypeTokensPrinted[k] # <<"?">>

NullableSugarWitness ==
    /\ TypePrinted
    /\ input.source.left = "nil|(T&U)"
    /\ TypeTokensPrinted = <<<<"(">>, <<"T">>, <<"&">>, <<"U">>, <<")">>, <<"?">>>>

Joiner(sh) == IF sh.k = "union" THEN <<"|">> ELSE <<"&">>

\* C14: a union or intersection that is not contracted prints its members in
\* order, joined by | or &, with n - 1 joiners for n members, a member being
\* in parentheses exactly when it is a function type or of the dual kind.
JoinedMembers ==
    (TypePrinted /\ PrintedShape.k \in {"union", "inter"} /\ ~Nullable(PrintedShape)) =>
        /\ TypeTokensPrinted = Rendered(PrintedShape)
        /\ Cardinality({k \in 1..Len(TypeTokensPrinted) :
                            /\ TypeTokensPrinted[k] = Joiner(PrintedShape)
                            /\ Cardinality({m \in 1..k : TypeTokensPrinted[m] = <<"(">>})
                               = Cardinality({m \in 1..k : TypeTokensPrinted[m] = <<")">>})})
           = Len(PrintedShape.types) - 1

JoinedMembersWitness ==
    /\ TypePrinted
    /\ input.source.left = "T&(()->T)"
    /\ Len(TypeTokensPrinted) = 10

\* a printed table type with no property and an indexer keyed by number
ArrayTablePrinted ==
    /\ TypePrinted
    /\ PrintedShape.k = "table"
    /\ PrintedShape.variant \in {"array", "readarray", "indexer"}

\* the text [number]: is in the printed type
IndexerSpelled ==
    \E k \in 1..(Len(TypeTokensPrinted) - 3) :
        SubSeq(TypeTokensPrinted, k, k + 3) = <<<<"[">>, nameNumber, <<"]">>, <<":">>>>

\* C15 (as stated): a table type with no property and one indexer keyed by
\* number is printed in the array form, with no [number]: text, with or
\* without a CST record.
ArrayFormAlways == ArrayTablePrinted => ~IndexerSpelled

\* C15 (amended): such a table type is printed in the array form when it has
\* no CST record or its record says the source had the array form, and with
\* [number]: when its record says the source had not.
ArrayFormUnlessRecorded ==
    ArrayTablePrinted =>
        (IndexerSpelled <=> (input.storeCstData /\ PrintedShape.variant = "indexer"))

ArrayFormUnlessRecordedWitness ==
    /\ ArrayTablePrinted
    /\ ~input.storeCstData
    /\ PrintedShape.variant = "indexer"
    /\ TypeTokensPrinted = <<<<"{">>, <<"T">>, <<"}">>>>

\* a printed table type that has members with read or write access
AccessTablePrinted ==
    /\ TypePrinted
    /\ PrintedShape.k = "table"
    /\ PrintedShape.variant \in {"readarray", "writeindexer", "props"}

\* the members of the printed table type, each as the token it starts with
\* and its access: the keyword, or none for read-write
MemberAccess ==
    CASE PrintedShape.variant = "readarray" -> <<<<<<"T">>, kwRead>>>>
      [] PrintedShape.variant = "writeindexer" -> <<<<<<"[">>, kwWrite>>>>
      [] PrintedShape.variant = "props" ->
            <<<<<<"a">>, kwRead>>, <<<<"b">>, kwWrite>>, <<<<"c">>, <<>>>>>>

\* C16: with types, a table property or indexer with read or write access is
\* printed after that keyword, one with read-write access after no keyword,
\* with and without a CST record.
AccessKeywordPrinted ==
    AccessTablePrinted =>
        \A m \in 1..Len(MemberAccess) :
            \E k \in 2..Len(TypeTokensPrinted) :
                /\ TypeTokensPrinted[k] = MemberAccess[m][1]
                /\ IF MemberAccess[m][2] # <<>>
                   THEN TypeTokensPrinted[k - 1] = MemberAccess[m][2]
                   ELSE TypeTokensPrinted[k - 1] \notin {kwRead, kwWrite}

\* a printed list that one comma injector serves: the arguments of a call in
\* parentheses, or the parameters of a function body and its trailing ...
CommaListPrinted ==
    /\ Printed
    /\ \/ input.source.family = "call" /\ input.source.op \in {"none", "paren", "triple"}
       \/ input.source.family = "function"

\* the number of its elements, and the comma positions its CST record holds
CommaListSize ==
    LET stat == ParseStat(input.source)
    IN  IF input.source.family = "call" THEN Len(stat.expr.args)
        ELSE Len(stat.func.args) + (IF stat.func.vararg THEN 1 ELSE 0)
CommaListPositions ==
    LET cst == ParseCst(input.source)
    IN  IF input.source.family = "call" THEN cst[2].commaPositions
        ELSE cst[3].argsCommaPositions

\* the calls that wrote a comma, in order
CommasEmitted ==
    SelectSeq([i \in 1..Len(emitted) |-> i],
              LAMBDA i : emitted[i].op = "symbol" /\ emitted[i].call.s = <<",">>)

\* C17: one injector invoked once per element of a list of n elements writes
\* max(n - 1, 0) commas, none before the first element; with recorded
\* positions the k-th comma comes right after advance(position[k]), each
\* position used once and in order, the trailing ... of a function body
\* taking its comma from the injector of the parameters.
CommaInjector ==
    CommaListPrinted =>
        /\ Len(CommasEmitted) = (IF CommaListSize > 0 THEN CommaListSize - 1 ELSE 0)
        /\ input.storeCstData =>
              /\ Len(CommasEmitted) = Len(CommaListPositions)
              /\ \A k \in 1..Len(CommasEmitted) :
                    /\ CommasEmitted[k] > 1
                    /\ emitted[CommasEmitted[k] - 1].call = cAdvance(CommaListPositions[k])
        /\ ~input.storeCstData =>
              \A k \in 1..Len(CommasEmitted) :
                  emitted[CommasEmitted[k] - 1].op # "advance"

\* three arguments printed from their CST record: two commas, the second at
\* the second recorded position
CommaInjectorWitness ==
    /\ CommaListPrinted
    /\ input.storeCstData
    /\ input.source.op = "triple"
    /\ input.source.g1 = 1
    /\ Len(CommasEmitted) = 2
    /\ emitted[CommasEmitted[2] - 1].call = cAdvance(CommaListPositions[2])

\* a run that prints a function type with types from its CST record, ended
\* one way or the other
FunctionTypeRun ==
    /\ pc \in {"done", "aborted"}
    /\ input.errors = <<>> /\ input.hasRoot
    /\ input.source.family = "type"
    /\ input.withTypes /\ input.storeCstData
    /\ PrintedShape.k = "func"

\* its parameter names and, parallel to them, its recorded colon positions
FunctionArgNames == ParseStat(input.source).type.argNames
FunctionColonPositions ==
    ParseCst(input.source)[ParseStat(input.source).type.id].argumentNameColonPositions

\* the calls that wrote a colon
ColonsEmitted == {j \in 1..Len(emitted) : emitted[j].op = "symbol" /\ emitted[j].call.s = <<":">>}

\* C18: for a function type whose parameters have optional names and, parallel
\* to them, optional colon positions, every named parameter is printed as its
\* name and a colon placed at the colon position of that parameter, also
\* after an unnamed parameter; an unnamed parameter gets no name and no colon.
ColonAtItsPosition ==
    FunctionTypeRun =>
        /\ pc = "done"
        /\ \A i \in 1..Len(FunctionArgNames) :
              FunctionArgNames[i] # <<>> =>
                  \E j \in ColonsEmitted :
                      /\ j > 2
                      /\ emitted[j - 1].call = cAdvance(FunctionColonPositions[i][1])
                      /\ emitted[j - 2].call = cIdentifier(FunctionArgNames[i][1].value)
        /\ Cardinality(ColonsEmitted)
              = Cardinality({i \in 1..Len(FunctionArgNames) : FunctionArgNames[i] # <<>>})

\* a printed binary expression that has no CST record, and the calls of
\* maybeSpace made for it
BinaryUnrecorded == Printed /\ input.source.family = "binary" /\ ~input.storeCstData
MaybeSpaces == {j \in 1..Len(emitted) : emitted[j].op = "maybeSpace"}

IfPrinted == Printed /\ input.source.family = "if"
Conditions == ChainLength[input.source.op]
KeywordCount(kw) == Cardinality({i \in 1..Len(emitted) : emitted[i].call = cKeyword(kw)})

\* C21: a chain of k conditions, each else-body but the last being the next
\* if statement, prints then k times, elseif k - 1 times, else once when the
\* last link has an else-body that is no if statement and never otherwise, and
\* end once, as the last token.
ElseIfChain ==
    IfPrinted =>
        /\ KeywordCount(kwIf) = 1
        /\ KeywordCount(kwThen) = Conditions
        /\ KeywordCount(kwElseif) = Conditions - 1
        /\ KeywordCount(kwElse) = (IF input.source.flag THEN 1 ELSE 0)
        /\ KeywordCount(kwEnd) = 1
        /\ Tokens[Len(Tokens)] = kwEnd

\* three conditions and an else
ElseIfChainWitness ==
    /\ IfPrinted
    /\ Conditions = 3
    /\ input.source.flag
    /\ KeywordCount(kwElseif) = 2
    /\ KeywordCount(kwElse) = 1

\* a printed call, its node and its CST record
CallPrinted == Printed /\ input.source.family = "call"
CallNode == ParseStat(input.source).expr
CallRecord == ParseCst(input.source)[CallNode.id]
SymbolCount(t) == Cardinality({i \in 1..Len(emitted) : emitted[i].call = cSymbol(t)})

\* the callee and the arguments as the calls that wrote them, in order
OperandsEmitted ==
    LET idx == SelectSeq([i \in 1..Len(emitted) |-> i],
                   LAMBDA i : emitted[i].op \in {"identifier", "string", "sourceString"})
    IN  [k \in 1..Len(idx) |-> emitted[idx[k]].call.s]
OperandsOf(call) ==
    <<call.func.name>>
    \o [i \in 1..Len(call.args) |->
            IF call.args[i].kind = "ExprGlobal" THEN call.args[i].name ELSE call.args[i].value]

\* C22: without a CST record a call prints ( after the callee and ) after the
\* last argument; with a CST record it prints ( exactly when the record has
\* an open position and ) exactly when it has a close position, so a sugared
\* call prints its string argument bare; the arguments come in order.
CallParentheses ==
    CallPrinted =>
        LET open == ~input.storeCstData \/ CallRecord.openParens # <<>>
            close == ~input.storeCstData \/ CallRecord.closeParens # <<>>
        IN  /\ SymbolCount(<<"(">>) = (IF open THEN 1 ELSE 0)
            /\ SymbolCount(<<")">>) = (IF close THEN 1 ELSE 0)
            /\ open => Tokens[2] = <<"(">>
            /\ close => Tokens[Len(Tokens)] = <<")">>
            /\ OperandsEmitted = OperandsOf(CallNode)

\* the sugared call f[=[s]=] printed from its CST record, no parenthesis
CallParenthesesWitness ==
    /\ CallPrinted
    /\ input.storeCstData
    /\ input.source.op = "raw"
    /\ CallRecord.openParens = <<>>
    /\ Len(Tokens) = 2
    /\ SymbolCount(<<"(">>) = 0

\* a printed interpolated string, its node, and the text written from its
\* opening backtick on
InterpPrinted == Printed /\ input.source.family = "interp"
InterpNode == ParseStat(input.source).list[1]
InterpWritten ==
    LET first == CHOOSE i \in 1..Len(emitted) :
                    /\ emitted[i].call = cSymbol(<<BT>>)
                    /\ \A j \in 1..(i - 1) : emitted[j].call # cSymbol(<<BT>>)
    IN  SubSeq(writer.ss, emitted[first].from, Len(writer.ss))

\* fragment i and what follows it: a hole for expression i while there is
\* one, then the next fragment
RECURSIVE Interleaved(_, _)
Interleaved(a, i) ==
    escape(a.strings[i], TRUE)
    \o (IF i <= Len(a.expressions)
        THEN <<"{">> \o a.expressions[i].name \o <<"}">> \o Interleaved(a, i + 1)
        ELSE <<>>)

\* C23: an interpolated string of N + 1 fragments and N expressions is printed
\* as a backtick, fragment 0, then for each i in 1..N a hole { expression i }
\* and fragment i, then a backtick: each expression once, in order, and no
\* hole after the last fragment.
InterpLockstep ==
    InterpPrinted =>
        /\ InterpWritten = <<BT>> \o Interleaved(InterpNode, 1) \o <<BT>>
        /\ SymbolCount(<<"{">>) = Len(InterpNode.expressions)
        /\ SymbolCount(<<"}">>) = Len(InterpNode.expressions)
        /\ SymbolCount(<<BT>>) = 2
        /\ SelectSeq([i \in 1..Len(emitted) |-> emitted[i].call],
                     LAMBDA x : x.op = "identifier")
              = [i \in 1..Len(InterpNode.expressions) |->
                    cIdentifier(InterpNode.expressions[i].name)]

\* two holes between three fragments that need their escape
InterpLockstepWitness ==
    /\ InterpPrinted
    /\ Len(InterpNode.expressions) = 2
    /\ InterpNode.strings[3] = <<"{">>
    /\ SymbolCount(<<"}">>) = 2
    /\ Len(InterpWritten) = 14

\* a printed repeat statement, its node, and the calls made up to its
\* condition
RepeatPrinted == Printed /\ input.source.family = "repeat"
RepeatNode == ParseStat(input.source)
CondBegin == RepeatNode.condition.location.begin
CallsMade(n) == [i \in 1..n |-> emitted[i].call]
RepeatHead ==
    <<cAdvance(RepeatNode.location.begin), cKeyword(kwRepeat),
      cAdvance(RepeatNode.body.location.end)>>

\* before until the printer advances to the recorded position, or else to
\* six columns before the condition, wherever the condition is
UntilAdvanceAlways ==
    RepeatPrinted =>
        LET target == IF input.storeCstData
                      THEN ParseCst(input.source)[RepeatNode.id].untilPosition
                      ELSE Position(CondBegin.line, USub(CondBegin.column, 6))
        IN  /\ Len(emitted) >= 6
            /\ CallsMade(6) = RepeatHead
                                \o <<cAdvance(target), cKeyword(kwUntil), cAdvance(CondBegin)>>

\* C24: before until the printer advances to the until position of the CST
\* record when there is one; without a record it advances to six columns
\* before the condition, on the line of the condition, when the condition
\* begins after column 5, and makes no advance when it begins at column 5 or
\* before; until comes after the body and before the condition.
UntilAdvanceGuarded ==
    RepeatPrinted =>
        LET target == IF input.storeCstData
                      THEN <<cAdvance(ParseCst(input.source)[RepeatNode.id].untilPosition)>>
                      ELSE IF CondBegin.column > 5
                      THEN <<cAdvance(Position(CondBegin.line, CondBegin.column - 6))>>
                      ELSE <<>>
            head == RepeatHead \o target \o <<cKeyword(kwUntil), cAdvance(CondBegin)>>
        IN  /\ Len(emitted) >= Len(head)
            /\ CallsMade(Len(head)) = head
            /\ KeywordCount(kwUntil) = 1

\* repeat, and on the next line until(c): the condition begins at column 5
\* and until follows the body with no advance of its own
UntilAdvanceGuardedWitness ==
    /\ RepeatPrinted
    /\ ~input.storeCstData
    /\ CondBegin = Position(1, 5)
    /\ emitted[4].call = cKeyword(kwUntil)

\* C27: no advance of the printer goes to a column obtained from an end
\* column of 0 by subtracting 1 modulo the width of the column: the targets of
\* the ) of a group, the ) of a parameter list and the ; of a statement are
\* columns of the tree, as those of } and end are.
NoWrappedColumn ==
    \A i \in 1..Len(calls) :
        calls[i].op = "advance" => calls[i].newPos.column # USub(0, 1)

\* C28: printing a table literal that has a record, the printer reads the
\* position of an item's separator only when the item has one: no step of the
\* printer is a read of an absent position, and an item without separator is
\* followed by neither , nor ;.
TablePrinting == input.source.family = "table" /\ input.storeCstData /\ pc # "start"

SeparatorReadWhenPresent ==
    TablePrinting =>
        /\ \A i \in 1..Len(calls) : calls[i].op # "absentLocation"
        /\ \A i \in 1..Len(emitted) : emitted[i].op # "absentLocation"
        /\ pc = "done" =>
              SymbolCount(<<",">>) + SymbolCount(<<";">>)
                  = Cardinality({i \in DOMAIN TableShape[input.source.op] :
                                    TableShape[input.source.op][i].separator # <<>>})

LocalPrinted == Printed /\ ParseStat(input.source).kind = "StatLocal"
LocalNode == ParseStat(input.source)

\* C29: a local declaration with a value is printed with one =, between the
\* last name and the first value (the declarations here have one value, of one
\* token), with and without types, with and without the records, and whether
\* or not the tree holds the location of the equals sign; a declaration
\* without value is printed without =.
EqualsBeforeValues ==
    LocalPrinted =>
        IF LocalNode.values # <<>>
        THEN /\ SymbolCount(<<"=">>) = 1
             /\ Len(Tokens) >= 4
             /\ Tokens[Len(Tokens) - 1] = <<"=">>
        ELSE SymbolCount(<<"=">>) = 0

\* the CST records the parser made for the source
CstRecords ==
    IF input.storeCstData /\ input.errors = <<>> /\ input.hasRoot
    THEN LET cstNodeMap == ParseCst(input.source)
         IN  {r \in {cstNodeMap[a] : a \in DOMAIN cstNodeMap} :
                \E i \in 1..Len(CstClasses) : CstClasses[i] = r.kind}
    ELSE {}

\* C30: the classes of CST records have pairwise distinct class indices: no
\* record is of two different classes, and as<T>() gives a record only for a
\* record constructed as T.
DistinctClassIndices ==
    \A r \in CstRecords :
        \A i, j \in 1..Len(CstClasses) :
            /\ i # j => ~(is(r, CstClasses[i]) /\ is(r, CstClasses[j]))
            /\ as(r, CstClasses[i]) # <<>> => r.kind = CstClasses[i]

(***************************************************************************)
(* A client of StringWriter alone: any cursor to start from (toString      *)
(* sets pos before printing), then any calls of the interface.             *)
(***************************************************************************)
MaxCalls == 2

Payloads == {<<>>, <<"a">>, <<SQ>>, <<DQ>>, <<"a", SQ, DQ>>}

WriterCalls ==
    {cAdvance(p) : p \in Positions}
    \cup {cNewline, cSpace}
    \cup {cMaybeSpace(Position(0, c), r) : c \in 0..MaxColumn, r \in 1..2}
    \cup {cWrite(s) : s \in {<<>>, <<"a">>, <<"a", NL>>}}
    \cup {cIdentifier(s) : s \in {<<>>, <<"x">>}}
    \cup {cKeyword(<<"d", "o">>), cSymbol(<<".">>), cSymbol(<<"-">>)}
    \cup {cLiteral(s) : s \in {<<>>, <<"1">>, <<".", "5">>}}
    \cup {cString(s) : s \in Payloads}
    \cup {cSourceString(s, q, 0) :
            s \in {<<"a">>, <<"a", NL, "b">>}, q \in {QuotedSingle, QuotedDouble, QuotedInterp}}
    \cup {cSourceString(<<"a", NL>>, QuotedRaw, d) : d \in 0..1}



WriterInit ==
    /\ writer \in {NewWriter(p) : p \in Positions}
    /\ calls = <<>>
    /\ emitted = <<>>
    /\ input = NoInput
    /\ pc = "writer"
    /\ result = NoResult

Invoke ==
    /\ pc = "writer"
    /\ calls = <<>>
    /\ Len(emitted) < MaxCalls
    /\ \E c \in WriterCalls : calls' = <<c>>
    /\ UNCHANGED <<writer, emitted, input, pc, result>>

WriterNext ==
    \/ Invoke
    \/ Advance
    \/ Newline
    \/ Space
    \/ MaybeSpace
    \/ Write
    \/ Identifier
    \/ Keyword
    \/ Symbol
    \/ Literal
    \/ String
    \/ SourceString

WriterSpec == WriterInit /\ [][WriterNext]_vars

\* the cursor is lexicographically at or after p
AtOrAfter(cur, p) == p.line < cur.line \/ (p.line = cur.line /\ p.column <= cur.column)

\* C2: advance(p) with p lexicographically at or before the cursor emits no
\* character and leaves the cursor and the last character unchanged, also when
\* p is on an earlier line and at a greater column.
AdvanceNeverWritesForEarlierTarget ==
    [][(Advance /\ AtOrAfter(writer.pos, Head(calls).newPos)) => writer' = writer]_vars

\* C19: advance(p) with p lexicographically at or after the cursor appends
\* p.line - cursor.line newlines, then spaces only, nothing else, and leaves
\* the cursor at p.
AdvanceForward ==
    [][(Advance /\ AtOrAfter(Head(calls).newPos, writer.pos)) =>
        LET p == Head(calls).newPos
            lines == p.line - writer.pos.line
            added == SubSeq(writer'.ss, Len(writer.ss) + 1, Len(writer'.ss))
        IN  /\ SubSeq(writer'.ss, 1, Len(writer.ss)) = writer.ss
            /\ Len(added) >= lines
            /\ \A i \in 1..Len(added) : added[i] = (IF i <= lines THEN NL ELSE SP)
            /\ writer'.pos = p]_vars

\* an advance to a later line and a column past 0, from an empty text
AdvanceForwardWitness ==
    /\ pc = "writer"
    /\ Len(emitted) = 1
    /\ emitted[1].op = "advance"
    /\ writer.ss = <<NL, SP>>
    /\ writer.pos = emitted[1].call.newPos

\* the pending call is a single-line write given text with a line feed
MisusedWrite ==
    /\ calls # <<>>
    /\ Head(calls).op \in {"write", "identifier", "keyword", "symbol", "literal"}
    /\ Contains(Head(calls).s, NL)

\* C25: every operation that is no single-line write of text with a line
\* feed moves the cursor down by the number of line feeds it appended, leaves
\* the column at the number of characters after the last of them (or adds
\* the number of characters appended when there is none), and leaves
\* lastChar at the last character of the buffer; so after any sequence of
\* such operations the cursor is the initial cursor moved over the buffer.
CursorFollowsBuffer ==
    [][~MisusedWrite =>
        LET added == SubSeq(writer'.ss, Len(writer.ss) + 1, Len(writer'.ss))
            lines == CountChar(added, NL)
        IN  /\ SubSeq(writer'.ss, 1, Len(writer.ss)) = writer.ss
            /\ writer'.pos.line = writer.pos.line + lines
            /\ writer'.pos.column = (IF lines = 0 THEN writer.pos.column + Len(added)
                                     ELSE TailAfter(added, NL))
            /\ writer'.lastChar = (IF writer'.ss = <<>> THEN NUL
                                   ELSE writer'.ss[Len(writer'.ss)])]_vars

\* a string of two lines written after a move of the cursor: the cursor is
\* one line down, behind the closing quote
CursorFollowsBufferWitness ==
    /\ pc = "writer"
    /\ Len(emitted) = 2
    /\ emitted[1].op = "advance"
    /\ emitted[2].op = "sourceString"
    /\ CountChar(writer.ss, NL) = 1
    /\ Len(writer.ss) > 6
    /\ writer.pos.column = TailAfter(writer.ss, NL)
    /\ writer.lastChar = writer.ss[Len(writer.ss)]

\* C26: after each operation the buffer starts with the buffer before it, and
\* the cursor is lexicographically at or after the cursor before it.
AppendOnly ==
    [][/\ Len(writer'.ss) >= Len(writer.ss)
       /\ SubSeq(writer'.ss, 1, Len(writer.ss)) = writer.ss
       /\ AtOrAfter(writer'.pos, writer.pos)]_vars

\* a newline after text: the column falls back to 0 while the line grows
AppendOnlyWitness ==
    /\ pc = "writer"
    /\ Len(emitted) = 2
    /\ emitted[1].op = "write"
    /\ emitted[2].op = "newline"
    /\ Len(writer.ss) = 2
    /\ writer.pos.column = 0

\* C10: string(s) opens and closes with the same quote: the single quote when
\* s has no single quote, the double quote when it has one.
StringQuoteChoice ==
    [][String =>
        LET s == Head(calls).s
            open == writer'.ss[Len(writer.ss) + 1]
            close == writer'.ss[Len(writer'.ss)]
        IN  /\ Len(writer'.ss) >= Len(writer.ss) + 2
            /\ open = close
            /\ (\A i \in 1..Len(s) : s[i] # SQ) => open = SQ
            /\ (\E i \in 1..Len(s) : s[i] = SQ) => open = DQ]_vars

StringQuoteChoiceWitness ==
    /\ emitted # <<>>
    /\ emitted[Len(emitted)].op = "string"
    /\ writer.ss[emitted[Len(emitted)].from] = DQ
    /\ writer.lastChar = DQ

====
